---- MODULE Spec2Model ----
(***************************************************************************)
(* Model of the murmprince firmware core: the HDMI colour lookup table     *)
(* (CLUT) with its vblank publish, the scanline interrupt handler, and the *)
(* SD streaming layer in its two builds: the cooperative (pump based)      *)
(* scheduler and the core 1 worker with its one-shot request queue.        *)
(*                                                                         *)
(* The specifications share the variables of this module:                  *)
(*   SpecClut   palette / fade API and the publish step                    *)
(*   SpecScan   the scanline interrupt handler and the frame source API    *)
(*   SpecCoop   the cooperative stream scheduler                           *)
(*   SpecShot   the worker build's one-shot request API                    *)
(*   SpecWork   the worker build's stream API and the SD mutex             *)
(*   SpecMutex  streams and one-shot requests together on one file         *)
(*   SpecSlots  slot allocation of either build                            *)
(*   SpecWait   chunked_sd_read with its vblank wait, poll by poll          *)
(*   SpecPump   the cooperative scheduler with several open streams         *)
(*   SpecFade   apply_fade_to_color over every level, with the fade API     *)
(*   SpecRefill one stream of SpecPump with the pump called again and again *)
(*   SpecPreempt the palette writer store by store, preempted by vsync      *)
(*   SpecShotFair SpecShot with the worker loop running for ever            *)
(* A specification leaves the variables of the other subsystems at their   *)
(* initial values.                                                         *)
(***************************************************************************)
EXTENDS Integers, Sequences, FiniteSets, TLC

(***************************************************************************)
(* Bounds of the model (not program constants).                            *)
(***************************************************************************)
\* number of non-reserved palette indices the model tracks
NumPlain == 2
\* number of input colours the palette writer chooses from
NumColors == 2
\* number of frame source / palette calls made while the scanline interrupt runs
MaxCalls == 2
\* stream slots (SD_ASYNC_MAX_STREAMS is 4)
NumStreams == 1
\* bytes of one stream buffer (SD_ASYNC_STREAM_BUFFER_BYTES is 8192)
BufBytes == 4
\* bytes read per pump call (SD_ASYNC_PUMP_CHUNK_SIZE is 512)
ChunkBytes == 2
\* largest file on the card
MaxFileSize == 9

(***************************************************************************)
(* Program constants.                                                      *)
(***************************************************************************)
BASE_HDMI_CTRL_INX == 240
HDMI_CTRL_COUNT == 4
SCREEN_WIDTH == 320
\* video_mode[0]
h_total == 524
h_width == 480
\* bytes of one scanline buffer (the DMA transfer count)
LINE_BYTES == 400
\* graphics_buffer_storage[FRAME_W * FRAME_H]
FRAME_BYTES == 76800
\* board_config.h is not part of the sources; the values of the reference
\* board are used.
HDMI_PIN_invert_diffpairs == TRUE
HDMI_PIN_RGB_notBGR == TRUE

(***************************************************************************)
(* Bit arithmetic on naturals.                                             *)
(***************************************************************************)
Pow2(n) == 2 ^ n
Bit(v, i) == (v \div Pow2(i)) % 2

RECURSIVE BitXor(_, _)
BitXor(a, b) ==
    IF a = 0 THEN b
    ELSE IF b = 0 THEN a
    ELSE (((a % 2) + (b % 2)) % 2) + 2 * BitXor(a \div 2, b \div 2)

RECURSIVE BitAnd(_, _)
BitAnd(a, b) ==
    IF a = 0 \/ b = 0 THEN 0
    ELSE ((a % 2) * (b % 2)) + 2 * BitAnd(a \div 2, b \div 2)

(***************************************************************************)
(* A uint64_t is kept as four 16-bit limbs, most significant first.        *)
(***************************************************************************)
U64Zero == <<0, 0, 0, 0>>
U64Xor(a, b) == [k \in 1..4 |-> BitXor(a[k], b[k])]
\* 0x0003ffffffffffff
PairMask == <<3, 65535, 65535, 65535>>

(***************************************************************************)
(* tmds_encoder: 8-bit channel value -> 10-bit TMDS symbol.                *)
(***************************************************************************)
RECURSIVE PopCount(_)
PopCount(v) == IF v = 0 THEN 0 ELSE (v % 2) + PopCount(v \div 2)

\* bit i of d_out for i in 0..7: q0 = d0, qi = q(i-1) ^ di ^ is_xnor
RECURSIVE TmdsBit(_, _, _)
TmdsBit(d8, x, i) ==
    IF i = 0 THEN Bit(d8, 0)
    ELSE (TmdsBit(d8, x, i - 1) + Bit(d8, i) + x) % 2

RECURSIVE TmdsSum(_, _, _)
TmdsSum(d8, x, i) ==
    IF i < 0 THEN 0
    ELSE TmdsBit(d8, x, i) * Pow2(i) + TmdsSum(d8, x, i - 1)

tmds_encoder(d8) ==
    LET s1 == PopCount(d8)
        is_xnor == (s1 > 4) \/ (s1 = 4 /\ Bit(d8, 0) = 0)
        x == IF is_xnor THEN 1 ELSE 0
    IN  TmdsSum(d8, x, 7) + (IF is_xnor THEN 512 ELSE 256)

(***************************************************************************)
(* get_ser_diff_data: three 10-bit symbols -> ten 6-bit pin groups packed  *)
(* into a uint64_t, five groups in each 32-bit half.                       *)
(***************************************************************************)
\* one bit as a differential pair: b | ((b ^ 1) << 1), inverted on request
DiffPair(b) ==
    LET p == b + 2 * (1 - b)
    IN  IF HDMI_PIN_invert_diffpairs THEN 3 - p ELSE p

D6(dataR, dataG, dataB, i) ==
    LET bR == DiffPair(Bit(dataR, 9 - i))
        bG == DiffPair(Bit(dataG, 9 - i))
        bB == DiffPair(Bit(dataB, 9 - i))
    IN  IF HDMI_PIN_RGB_notBGR THEN 16 * bR + 4 * bG + bB
                               ELSE 16 * bB + 4 * bG + bR

\* the groups i..j packed six bits each, group i most significant
RECURSIVE PackD6(_, _, _, _, _)
PackD6(dataR, dataG, dataB, i, j) ==
    IF i > j THEN 0
    ELSE D6(dataR, dataG, dataB, i) * Pow2(6 * (j - i))
         + PackD6(dataR, dataG, dataB, i + 1, j)

get_ser_diff_data(dataR, dataG, dataB) ==
    LET hi == PackD6(dataR, dataG, dataB, 0, 4)
        lo == PackD6(dataR, dataG, dataB, 5, 9)
    IN  <<hi \div 65536, hi % 65536, lo \div 65536, lo % 65536>>

(***************************************************************************)
(* Palette state (unnamed/part_000).  The arrays of 256 entries are        *)
(* restricted to the tracked indices: NumPlain ordinary indices, one per   *)
(* colour row, and the four reserved control indices 240..243.             *)
(***************************************************************************)
PlainIdx == {5 + 83 * k : k \in 0..(NumPlain - 1)}
CtrlIdx == BASE_HDMI_CTRL_INX..(BASE_HDMI_CTRL_INX + HDMI_CTRL_COUNT - 1)
TrackedIdx == PlainIdx \cup CtrlIdx
IsCtrl(i) == i >= BASE_HDMI_CTRL_INX /\ i < (BASE_HDMI_CTRL_INX + HDMI_CTRL_COUNT)

\* inputs of the palette writer
PalInputs == PlainIdx \cup {BASE_HDMI_CTRL_INX + 1}
AllColors == <<16711680, 65280, 8405024, 33554431>>
Colors == {AllColors[k] : k \in 1..NumColors}
FadeLevels == {0, 20, 48, 64}
RowMasks == {0, 1}

VARIABLES
    palette,            \* uint32_t palette[256]: current (post-fade) colours
    palette_original,   \* uint32_t palette_original[256]
    g_hdmi_fade_level,  \* uint8_t
    g_hdmi_fade_rows,   \* uint16_t
    conv_color_front,   \* CLUT copy read by the DMA: index -> <<word0, word1>>
    conv_color_back,    \* CLUT copy written by the palette API
    conv_color_dirty,   \* back buffer has been modified
    last_op,            \* history: name of the operation that ran last
    last_idx,           \* history: palette index passed to it (-1: none)
    \* ---- scanline interrupt handler and frame source (unnamed/part_000)
    line,               \* static uint line of dma_handler_HDMI
    inx_buf_dma,        \* static uint32_t inx_buf_dma, kept modulo 2
    dma_lines,          \* the two scanline buffers, 400 bytes each
    g_hdmi_loading_mode,
    graphics_buffer,    \* "NULL" or the registered frame buffer
    graphics_buffer_width,
    graphics_buffer_height,
    graphics_buffer_shift_x,
    graphics_buffer_shift_y,
    hdmi_graphics_mode,
    buf_line,           \* history: the line each scanline buffer was built for
    isr_vsync,          \* history: the last interrupt called vsync_handler
    api_calls,          \* history: frame source / palette calls made so far
    dma_ctrl_read,      \* index into DMA_BUF_ADDR the control channel reads next
    dma_read,           \* scanline buffer the data channel reads in this line period
    \* ---- cooperative stream scheduler (src/SDL_port.c)
    streams,            \* struct sd_async_stream streams[]
    call,               \* history: the last stream API call and its result
    got,                \* history: bytes read returned since open (-1 after a seek)
    rdpos,              \* history: file offset of the next byte a read is to return
    \* ---- worker (core 1) stream scheduler (src/SDL_port.c)
    wstreams,           \* struct sd_async_stream streams[] of the worker variant
    requests,           \* oneshot_request_t requests[]
    g_next_req_id,
    g_sd_mutex,         \* owner of the SD mutex: "none", "core0" or "core1"
    wk,                  \* core 1: position in core1_worker and its locals
    c0,                 \* core 0: position inside a blocking API call
    whandle,            \* history: core 0 holds a handle for the slot
    in_fatfs,           \* history: the cores that are inside a FatFS call
    mutex_in_wait,      \* history: a vblank wait was made with the mutex held
    dev,                \* history: the last storage device call
    reqlog,             \* history: what happened to each request id
    wcall,              \* history: the last API call of the worker variant
    wcursor,            \* history: offset of the next byte the caller expects
    \* ---- chunked_sd_read and its vblank wait, poll by poll (src/SDL_port.c)
    vw,                 \* core 1 inside chunked_sd_read: position and locals
    \* ---- cooperative scheduler with several streams (src/SDL_port.c)
    mstreams,           \* struct sd_async_stream streams[], NumPumpStreams slots
    mcall,              \* history: the last call and the storage reads it made
    \* ---- apply_fade_to_color as a function (unnamed/part_000)
    fade_probe,         \* history: the last call, its table index and its result
    \* ---- palette writer preempted by the scanline interrupt (unnamed/part_000)
    pw                  \* the palette writer: position inside its call and locals

clutVars == <<palette, palette_original, g_hdmi_fade_level, g_hdmi_fade_rows,
              conv_color_front, conv_color_back, conv_color_dirty>>
histVars == <<last_op, last_idx>>
scanVars == <<line, inx_buf_dma, dma_lines, g_hdmi_loading_mode, graphics_buffer,
              graphics_buffer_width, graphics_buffer_height,
              graphics_buffer_shift_x, graphics_buffer_shift_y,
              hdmi_graphics_mode, buf_line, isr_vsync, api_calls,
              dma_ctrl_read, dma_read>>
coopVars == <<streams, call, got, rdpos>>
workVars == <<wstreams, requests, g_next_req_id, g_sd_mutex, wk, c0, whandle,
              in_fatfs, mutex_in_wait, dev, reqlog, wcall, wcursor>>
waitVars == <<vw>>
multiVars == <<mstreams, mcall>>
fadeVars == <<fade_probe>>
preemptVars == <<pw>>
extraVars == <<waitVars, multiVars, fadeVars, preemptVars>>
vars == <<clutVars, histVars, scanVars, coopVars, workVars, extraVars>>

\* ---- worker variant: bounds and constants
NumRequests == 2        \* SD_ASYNC_MAX_REQUESTS is 8; two slots are modelled
MaxReqIds == 2          \* requests submitted in one run
SD_READ_CHUNK_SIZE == ChunkBytes    \* 512 bytes, scaled like the pump chunk

\* ---- vblank wait: SD_VBLANK_WAIT_TIMEOUT is 50000 loop iterations
SD_VBLANK_WAIT_TIMEOUT == 3
\* ---- cooperative scheduler with several streams: SD_ASYNC_MAX_STREAMS is 4
NumPumpStreams == 2

fade_gamma_table ==
    << 255, 253, 251, 249, 247, 245, 243, 241,
       239, 236, 234, 231, 229, 226, 223, 220,
       217, 214, 211, 208, 204, 201, 197, 193,
       189, 185, 181, 176, 172, 167, 162, 156,
       151, 145, 139, 133, 126, 119, 112, 104,
       96,  88,  79,  69,  59,  48,  36,  23,
       0,   0,   0,   0,   0,   0,   0,   0,
       0,   0,   0,   0,   0,   0,   0,   0 >>

ChanR(c) == (c \div 65536) % 256
ChanG(c) == (c \div 256) % 256
ChanB(c) == c % 256

\* fault variant of apply_fade_to_color: a linear ramp over the 64 levels
\* instead of the gamma table and its saturation threshold
apply_fade_linear(color888, fade_level) ==
    IF fade_level = 0 THEN color888
    ELSE IF fade_level >= 64 THEN 0
    ELSE LET scale == 256 - 4 * fade_level
             r == (((color888 \div 65536) % 256) * scale) \div 256
             g == (((color888 \div 256) % 256) * scale) \div 256
             b == ((color888 % 256) * scale) \div 256
         IN  r * 65536 + g * 256 + b

apply_fade_to_color(color888, fade_level) ==
    IF fade_level = 0 THEN color888
    ELSE IF fade_level >= 48 THEN 0
    ELSE LET scale == fade_gamma_table[fade_level + 1]
             r == (ChanR(color888) * scale) \div 256
             g == (ChanG(color888) * scale) \div 256
             b == (ChanB(color888) * scale) \div 256
         IN  r * 65536 + g * 256 + b

\* bit `row` of the 16-bit row mask
RowSelected(which_rows, row) == Bit(which_rows, row) = 1

\* the two 64-bit words written for one colour: conv_color64[2i], [2i+1]
EncodeColor(color) ==
    LET w == get_ser_diff_data(tmds_encoder(ChanR(color)),
                               tmds_encoder(ChanG(color)),
                               tmds_encoder(ChanB(color)))
    IN  <<w, U64Xor(w, PairMask)>>

\* the colours palette[] can hold for the inputs of this model
PaletteColors ==
    {0} \cup {c % 16777216 : c \in Colors}
        \cup {apply_fade_to_color(c % 16777216, l) : c \in Colors, l \in FadeLevels}

\* EncodeColor tabulated once over PaletteColors
ClutTable == [c \in PaletteColors |-> EncodeColor(c)]
ClutEntry(color) == ClutTable[color]

\* the four sync / control encodings, both words equal
EncodeSync(i) ==
    LET b0 == 852
        b1 == 171
        b2 == 340
        b3 == 683
        w  == CASE i = BASE_HDMI_CTRL_INX     -> get_ser_diff_data(b0, b0, b3)
                [] i = BASE_HDMI_CTRL_INX + 1 -> get_ser_diff_data(b0, b0, b2)
                [] i = BASE_HDMI_CTRL_INX + 2 -> get_ser_diff_data(b0, b0, b1)
                [] OTHER                      -> get_ser_diff_data(b0, b0, b0)
    IN  <<w, w>>

SyncTable == [i \in CtrlIdx |-> EncodeSync(i)]
SyncEntry(i) == SyncTable[i]

\* graphics_restore_sync_colors applied to one CLUT copy
WithSync(clut) == [i \in TrackedIdx |-> IF i \in CtrlIdx THEN SyncEntry(i) ELSE clut[i]]

\* hdmi_init: palette[] is zero, every non-reserved index is programmed into
\* the back copy, the sync entries are written into both copies.
ClutInit ==
    /\ palette = [i \in TrackedIdx |-> 0]
    /\ palette_original = [i \in TrackedIdx |-> 0]
    /\ g_hdmi_fade_level = 0
    /\ g_hdmi_fade_rows = 0
    /\ conv_color_front = WithSync([i \in TrackedIdx |-> <<U64Zero, U64Zero>>])
    /\ conv_color_back = WithSync([i \in TrackedIdx |-> ClutEntry(0)])
    /\ conv_color_dirty = TRUE

HistInit ==
    /\ last_op = "init"
    /\ last_idx = -1

(***************************************************************************)
(* Palette / fade API.                                                     *)
(***************************************************************************)
\* the colour graphics_set_palette_hdmi derives from color888 for index i
SetPaletteFaded(i, color888) ==
    LET row == i \div 16
        c24 == color888 % 16777216
        should_fade == \/ g_hdmi_fade_level >= 64
                       \/ g_hdmi_fade_rows = 0
                       \/ RowSelected(g_hdmi_fade_rows, row)
    IN  IF g_hdmi_fade_level > 0 /\ should_fade
        THEN apply_fade_to_color(c24, g_hdmi_fade_level)
        ELSE c24

\* fault variant of graphics_set_palette_hdmi: the early return for the
\* reserved indices is missing
set_palette_unguarded(i, color888) ==
    LET faded_color == SetPaletteFaded(i, color888)
    IN  /\ palette_original' = [palette_original EXCEPT ![i] = color888 % 16777216]
        /\ palette' = [palette EXCEPT ![i] = faded_color]
        /\ conv_color_back' = [conv_color_back EXCEPT ![i] = ClutEntry(faded_color)]
        /\ conv_color_dirty' = TRUE
        /\ UNCHANGED <<g_hdmi_fade_level, g_hdmi_fade_rows, conv_color_front>>

\* void graphics_set_palette_hdmi(uint8_t i, uint32_t color888)
graphics_set_palette_hdmi(i, color888) ==
    LET faded_color == SetPaletteFaded(i, color888)
    IN  /\ palette_original' = [palette_original EXCEPT ![i] = color888 % 16777216]
        /\ palette' = [palette EXCEPT ![i] = faded_color]
        /\ IF IsCtrl(i)
           THEN UNCHANGED <<conv_color_back, conv_color_dirty>>
           ELSE /\ conv_color_back' = [conv_color_back EXCEPT ![i] = ClutEntry(faded_color)]
                /\ conv_color_dirty' = TRUE
        /\ UNCHANGED <<g_hdmi_fade_level, g_hdmi_fade_rows, conv_color_front>>

\* fault variant of SetFadeColor: the fade is applied to the current colour
\* instead of the stored original
SetFadeColor_from_current(i, fade_level, which_rows) ==
    LET row == i \div 16
        color == palette[i]
        should_fade == \/ fade_level >= 48
                       \/ which_rows = 0
                       \/ RowSelected(which_rows, row)
    IN  IF fade_level > 0 /\ should_fade
        THEN apply_fade_to_color(color, fade_level)
        ELSE color

\* fault variant of SetFadeColor: the row mask is ignored
SetFadeColor_all_rows(i, fade_level, which_rows) ==
    IF fade_level > 0
    THEN apply_fade_to_color(palette_original[i], fade_level)
    ELSE palette_original[i]

\* the colour graphics_set_fade_level derives for index i
SetFadeColor(i, fade_level, which_rows) ==
    LET row == i \div 16
        color == palette_original[i]
        should_fade == \/ fade_level >= 48
                       \/ which_rows = 0
                       \/ RowSelected(which_rows, row)
    IN  IF fade_level > 0 /\ should_fade
        THEN apply_fade_to_color(color, fade_level)
        ELSE color

\* fault variant of graphics_set_fade_level: the loop does not skip the
\* control indices and the sync codes are not restored afterwards
set_fade_level_all_entries(fade_level, which_rows) ==
    /\ g_hdmi_fade_level' = fade_level
    /\ g_hdmi_fade_rows' = which_rows
    /\ palette' = [i \in TrackedIdx |-> SetFadeColor(i, fade_level, which_rows)]
    /\ conv_color_back' = [i \in TrackedIdx |->
                              ClutEntry(SetFadeColor(i, fade_level, which_rows))]
    /\ conv_color_dirty' = TRUE
    /\ UNCHANGED <<palette_original, conv_color_front>>

\* void graphics_set_fade_level(uint8_t fade_level, uint16_t which_rows),
\* graphics_restore_sync_colors() at its end included
graphics_set_fade_level(fade_level, which_rows) ==
    /\ g_hdmi_fade_level' = fade_level
    /\ g_hdmi_fade_rows' = which_rows
    /\ palette' = [i \in TrackedIdx |->
                     IF IsCtrl(i) THEN palette[i]
                     ELSE SetFadeColor(i, fade_level, which_rows)]
    /\ conv_color_back' = WithSync([i \in TrackedIdx |->
                     IF IsCtrl(i) THEN conv_color_back[i]
                     ELSE ClutEntry(SetFadeColor(i, fade_level, which_rows))])
    /\ conv_color_front' = WithSync(conv_color_front)
    /\ conv_color_dirty' = TRUE
    /\ UNCHANGED palette_original

\* void graphics_restore_sync_colors(void)
graphics_restore_sync_colors ==
    /\ conv_color_back' = WithSync(conv_color_back)
    /\ conv_color_front' = WithSync(conv_color_front)
    /\ UNCHANGED <<palette, palette_original, g_hdmi_fade_level, g_hdmi_fade_rows,
                   conv_color_dirty>>

\* static void vsync_swap_buffers(void): the publish step
\* fault variant of vsync_swap_buffers: the dirty flag is cleared without
\* the copy
vsync_swap_no_copy ==
    /\ conv_color_dirty' = FALSE
    /\ UNCHANGED <<palette, palette_original, g_hdmi_fade_level, g_hdmi_fade_rows,
                   conv_color_front, conv_color_back>>

vsync_swap_buffers ==
    /\ IF conv_color_dirty
       THEN /\ conv_color_front' = conv_color_back
            /\ conv_color_dirty' = FALSE
       ELSE UNCHANGED <<conv_color_front, conv_color_dirty>>
    /\ UNCHANGED <<palette, palette_original, g_hdmi_fade_level, g_hdmi_fade_rows,
                   conv_color_back>>

(***************************************************************************)
(* Actions of SpecClut.  The publish step runs at the frame wrap of the    *)
(* scanline interrupt (see dma_handler_HDMI below); for the palette writer *)
(* that is any point between two of its calls.                             *)
(***************************************************************************)
SetPalette(i, color888) ==
    /\ graphics_set_palette_hdmi(i, color888)
    /\ last_op' = "set_palette"
    /\ last_idx' = i
    /\ UNCHANGED <<scanVars, coopVars, workVars, extraVars>>

SetFadeLevel(fade_level, which_rows) ==
    /\ graphics_set_fade_level(fade_level, which_rows)
    /\ last_op' = "set_fade_level"
    /\ last_idx' = -1
    /\ UNCHANGED <<scanVars, coopVars, workVars, extraVars>>

RestoreSyncColors ==
    /\ graphics_restore_sync_colors
    /\ last_op' = "restore_sync_colors"
    /\ last_idx' = -1
    /\ UNCHANGED <<scanVars, coopVars, workVars, extraVars>>

VsyncHandler ==
    /\ vsync_swap_buffers
    /\ last_op' = "vsync_handler"
    /\ last_idx' = -1
    /\ UNCHANGED <<scanVars, coopVars, workVars, extraVars>>

(***************************************************************************)
(* Scanline interrupt handler and frame source API.                        *)
(***************************************************************************)
\* contents of the registered frame buffer: every 256 bytes hold each index
\* once, the reserved ones included
FramePixel(o) == (o + 236) % 256
\* a read outside the frame buffer storage yields an arbitrary byte
JunkBytes == {0, 241, 255}
ReadFrame(o, junk) == IF o >= 0 /\ o < FRAME_BYTES THEN FramePixel(o) ELSE junk

\* fault variant of GuardIndex: the upper end of the reserved range is missed
GuardIndex_short(c) ==
    IF c >= BASE_HDMI_CTRL_INX /\ c < BASE_HDMI_CTRL_INX + HDMI_CTRL_COUNT - 1
    THEN 255 ELSE c

\* the reserved-range guard of the pixel copy
GuardIndex(c) == IF IsCtrl(c) THEN 255 ELSE c

\* uint8_t* get_line_buffer(int line): offset of the row, -1 for NULL
get_line_buffer(y) ==
    IF graphics_buffer = "NULL" THEN -1
    ELSE IF y < 0 \/ y >= graphics_buffer_height THEN -1
    ELSE y * graphics_buffer_width

\* the 320 bytes written at activ_buf + 72 for an active line
PixelRegion(ln, junk) ==
    LET y == ln \div 2
        input_buffer == get_line_buffer(y)
        blank == [p \in 0..(SCREEN_WIDTH - 1) |-> 255]
    IN  IF g_hdmi_loading_mode THEN blank
        ELSE IF input_buffer = -1 THEN blank
        ELSE IF hdmi_graphics_mode = "DEFAULT"
        THEN IF \/ graphics_buffer_shift_y > y
                \/ y >= graphics_buffer_shift_y + graphics_buffer_height
                \/ graphics_buffer_shift_x >= SCREEN_WIDTH
                \/ graphics_buffer_shift_x + graphics_buffer_width < 0
             THEN blank
             ELSE LET left == IF graphics_buffer_shift_x > 0
                              THEN graphics_buffer_shift_x ELSE 0
                      start == IF graphics_buffer_shift_x < 0
                               THEN input_buffer - graphics_buffer_shift_x
                               ELSE input_buffer
                      input_buffer_end == input_buffer + graphics_buffer_width
                  IN  [p \in 0..(SCREEN_WIDTH - 1) |->
                         IF p < left THEN 255
                         ELSE IF start < input_buffer_end
                              THEN GuardIndex(ReadFrame(start + (p - left), junk))
                              ELSE 255]
        ELSE [p \in 0..(SCREEN_WIDTH - 1) |->
                 GuardIndex(ReadFrame(input_buffer + p, junk))]

\* does building line ln read outside the frame buffer storage
ReadsOutside(ln) ==
    LET y == ln \div 2
        input_buffer == get_line_buffer(y)
    IN  /\ ~g_hdmi_loading_mode
        /\ input_buffer # -1
        /\ \/ input_buffer + SCREEN_WIDTH > FRAME_BYTES
           \/ input_buffer - graphics_buffer_shift_x + SCREEN_WIDTH > FRAME_BYTES

\* fault variant of BuildLine: the sync codes around the pixel region are
\* not rewritten
build_line_pixels_only(old, ln, junk) ==
    [k \in 0..(LINE_BYTES - 1) |->
        IF ln < h_width /\ k >= 72 /\ k < 72 + SCREEN_WIDTH
        THEN PixelRegion(ln, junk)[k - 72]
        ELSE old[k]]

\* the scanline buffer the handler leaves for line ln
BuildLine(old, ln, junk) ==
    IF ln < h_width
    THEN LET px == PixelRegion(ln, junk)
         IN  [k \in 0..(LINE_BYTES - 1) |->
                IF k < 48 THEN BASE_HDMI_CTRL_INX + 1
                ELSE IF k < 72 THEN BASE_HDMI_CTRL_INX
                ELSE IF k < 72 + SCREEN_WIDTH THEN px[k - 72]
                ELSE BASE_HDMI_CTRL_INX]
    ELSE IF ln >= 490 /\ ln < 492
    THEN [k \in 0..(LINE_BYTES - 1) |->
            IF k < 48 THEN BASE_HDMI_CTRL_INX + 3 ELSE BASE_HDMI_CTRL_INX + 2]
    ELSE [k \in 0..(LINE_BYTES - 1) |->
            IF k < 48 THEN BASE_HDMI_CTRL_INX + 1 ELSE BASE_HDMI_CTRL_INX]

ScanInit ==
    /\ line = 0
    /\ inx_buf_dma = 0
    /\ dma_lines = [b \in 0..1 |-> [k \in 0..(LINE_BYTES - 1) |-> 0]]
    /\ g_hdmi_loading_mode = FALSE
    /\ graphics_buffer = "NULL"
    /\ graphics_buffer_width = 320
    /\ graphics_buffer_height = 240
    /\ graphics_buffer_shift_x = 0
    /\ graphics_buffer_shift_y = 0
    /\ hdmi_graphics_mode = "DEFAULT"
    /\ buf_line = [b \in 0..1 |-> -1]
    /\ isr_vsync = FALSE
    /\ api_calls = 0
    /\ dma_ctrl_read = 0
    /\ dma_read = 0

\* fault variant of FrameWrap: the counter wraps at the end of the picture
FrameWrap_at_picture_end(ln) == ln >= h_width

\* the line counter has reached the end of the frame
FrameWrap(ln) == ln >= h_total

\* fault variant of NextReadBuffer: the control channel is pointed at the
\* buffer the handler is about to write
next_read_is_write_buffer(inx) == (inx + 1) % 2

\* dma_channel_set_read_addr(dma_chan_ctrl, &DMA_BUF_ADDR[inx_buf_dma & 1], false):
\* the scanline buffer the data channel is given at the end of this line
NextReadBuffer(inx) == inx % 2

\* static void dma_handler_HDMI(): one scanline interrupt, with the reload
\* of the data channel by the control channel that raised it
dma_handler_HDMI ==
    LET wrap == FrameWrap(line)
        ln   == IF wrap THEN 0 ELSE line + 1
        nb   == (inx_buf_dma + 1) % 2
    IN  /\ dma_read' = dma_ctrl_read
        /\ dma_ctrl_read' = NextReadBuffer(inx_buf_dma)
        /\ line' = ln
        /\ isr_vsync' = wrap
        /\ IF wrap THEN vsync_swap_buffers ELSE UNCHANGED clutVars
        /\ IF ln % 2 = 0
           THEN UNCHANGED <<inx_buf_dma, dma_lines, buf_line>>
           ELSE /\ inx_buf_dma' = nb
                /\ \E junk \in (IF ReadsOutside(ln) THEN JunkBytes ELSE {0}) :
                       dma_lines' = [dma_lines EXCEPT ![nb] = BuildLine(@, ln, junk)]
                /\ buf_line' = [buf_line EXCEPT ![nb] = ln]
        /\ UNCHANGED <<g_hdmi_loading_mode, graphics_buffer, graphics_buffer_width,
                       graphics_buffer_height, graphics_buffer_shift_x,
                       graphics_buffer_shift_y, hdmi_graphics_mode, api_calls>>

DmaHandler ==
    /\ dma_handler_HDMI
    /\ last_op' = "dma_handler_HDMI"
    /\ last_idx' = -1
    /\ UNCHANGED <<coopVars, workVars, extraVars>>

scanCfg == <<line, inx_buf_dma, dma_lines, buf_line, isr_vsync, dma_ctrl_read,
             dma_read>>

\* void graphics_set_loading_mode(bool enable)
SetLoadingMode(enable) ==
    /\ api_calls < MaxCalls
    /\ api_calls' = api_calls + 1
    /\ g_hdmi_loading_mode' = enable
    /\ last_op' = "set_loading_mode"
    /\ last_idx' = -1
    /\ UNCHANGED <<graphics_buffer, graphics_buffer_width, graphics_buffer_height,
                   graphics_buffer_shift_x, graphics_buffer_shift_y,
                   hdmi_graphics_mode, scanCfg, clutVars, coopVars,
                   workVars, extraVars>>

\* void graphics_set_buffer(uint8_t *buffer)
SetBuffer(buffer) ==
    /\ api_calls < MaxCalls
    /\ api_calls' = api_calls + 1
    /\ graphics_buffer' = buffer
    /\ last_op' = "set_buffer"
    /\ last_idx' = -1
    /\ UNCHANGED <<g_hdmi_loading_mode, graphics_buffer_width, graphics_buffer_height,
                   graphics_buffer_shift_x, graphics_buffer_shift_y,
                   hdmi_graphics_mode, scanCfg, clutVars, coopVars,
                   workVars, extraVars>>

\* void graphics_set_res(int w, int h)
SetRes(w, h) ==
    /\ api_calls < MaxCalls
    /\ api_calls' = api_calls + 1
    /\ graphics_buffer_width' = w
    /\ graphics_buffer_height' = h
    /\ last_op' = "set_res"
    /\ last_idx' = -1
    /\ UNCHANGED <<g_hdmi_loading_mode, graphics_buffer,
                   graphics_buffer_shift_x, graphics_buffer_shift_y,
                   hdmi_graphics_mode, scanCfg, clutVars, coopVars,
                   workVars, extraVars>>

\* void graphics_set_shift(int x, int y)
SetShift(x, y) ==
    /\ api_calls < MaxCalls
    /\ api_calls' = api_calls + 1
    /\ graphics_buffer_shift_x' = x
    /\ graphics_buffer_shift_y' = y
    /\ last_op' = "set_shift"
    /\ last_idx' = -1
    /\ UNCHANGED <<g_hdmi_loading_mode, graphics_buffer, graphics_buffer_width,
                   graphics_buffer_height, hdmi_graphics_mode, scanCfg, clutVars,
                   coopVars, workVars, extraVars>>

\* a palette write made while the interrupt runs
ScanSetPalette(i, color888) ==
    /\ api_calls < MaxCalls
    /\ api_calls' = api_calls + 1
    /\ graphics_set_palette_hdmi(i, color888)
    /\ last_op' = "set_palette"
    /\ last_idx' = i
    /\ UNCHANGED <<g_hdmi_loading_mode, graphics_buffer, graphics_buffer_width,
                   graphics_buffer_height, graphics_buffer_shift_x,
                   graphics_buffer_shift_y, hdmi_graphics_mode, scanCfg, coopVars,
                   workVars, extraVars>>

\* inputs of the frame source API
ResInputs == {<<320, 240>>, <<160, 120>>}
ShiftInputs == {<<8, 4>>, <<-8, 0>>}

(***************************************************************************)
(* Cooperative stream scheduler (src/SDL_port.c, pump based variant).      *)
(***************************************************************************)
Slots == 0..(NumStreams - 1)
Min(a, b) == IF a < b THEN a ELSE b
\* the byte at offset o of a file (never 0, the value of unwritten memory)
FileByte(o) == o + 1
EmptyBuf == [k \in 0..(BufBytes - 1) |-> 0]

\* inputs of the stream API
FileSizes == 0..MaxFileSize
ReadSizes == {0, 1, BufBytes - 1, 2 * BufBytes}
SeekPositions == {0, 3, MaxFileSize}

\* sd_async_init: memset and state = STREAM_STATE_CLOSED
ClosedStream ==
    [ state |-> "CLOSED", file |-> FALSE, file_size |-> 0, file_pos |-> 0,
      fptr |-> 0, bufs |-> FALSE, buffer_a |-> EmptyBuf, buffer_b |-> EmptyBuf,
      buffer_a_valid |-> 0, buffer_b_valid |-> 0,
      buffer_a_consumed |-> 0, buffer_b_consumed |-> 0,
      active_buffer |-> 0, fill_offset |-> 0 ]

\* the last API call: its arguments, its return value, and what
\* sd_async_stream_available, the other buffer's valid count and the number
\* of bytes read since open were immediately before it
NoCall == [op |-> "none", slot |-> -1, n |-> 0, ret |-> 0, avail |-> 0, other |-> 0,
           pre_got |-> 0, swapped |-> FALSE, data |-> <<>>]

CoopInit ==
    /\ streams = [s \in Slots |-> ClosedStream]
    /\ call = NoCall
    /\ got = [s \in Slots |-> 0]
    /\ rdpos = [s \in Slots |-> 0]

\* int sd_async_stream_available(sd_async_stream_t* stream)
sd_async_stream_available(r) ==
    IF r.active_buffer = 0
    THEN r.buffer_a_valid - r.buffer_a_consumed
    ELSE r.buffer_b_valid - r.buffer_b_consumed

\* bool sd_async_stream_eof(sd_async_stream_t* stream)
sd_async_stream_eof(r) ==
    r.state = "EOF" /\ sd_async_stream_available(r) <= 0

\* size_t sd_async_stream_tell(sd_async_stream_t* stream)
sd_async_stream_tell(r) ==
    LET buffered == IF r.active_buffer = 0
                    THEN (r.buffer_a_valid - r.buffer_a_consumed) + r.buffer_b_valid
                    ELSE (r.buffer_b_valid - r.buffer_b_consumed) + r.buffer_a_valid
    IN  IF r.file_pos > buffered THEN r.file_pos - buffered ELSE 0

\* fault variant of FillBuf: f_read stores at the start of the buffer instead
\* of buf + fill_offset
fill_at_buffer_start(buf, fill_offset, fptr, br) ==
    [k \in 0..(BufBytes - 1) |-> IF k < br THEN FileByte(fptr + k) ELSE buf[k]]

\* buf with br bytes of the file, from offset fptr on, stored at fill_offset
FillBuf(buf, fill_offset, fptr, br) ==
    [k \in 0..(BufBytes - 1) |->
        IF k >= fill_offset /\ k < fill_offset + br
        THEN FileByte(fptr + (k - fill_offset))
        ELSE buf[k]]

\* a fill of buffer A or B ends with fill_offset bytes in it
PumpFinishA(r, to_b) ==
    [r EXCEPT !.buffer_a_valid = r.fill_offset, !.fill_offset = 0,
              !.buffer_a_consumed = 0, !.state = to_b]
PumpFinishB(r, to_b) ==
    [r EXCEPT !.buffer_b_valid = r.fill_offset, !.fill_offset = 0,
              !.buffer_b_consumed = 0, !.state = to_b]

\* static bool pump_stream(sd_async_stream_t* s): the stream after the call;
\* ok is the result of f_read (FR_OK or not)
pump_stream(r, ok) ==
    IF r.state \notin {"FILLING_A", "FILLING_B"} THEN r
    ELSE IF r.file_pos >= r.file_size
    THEN IF r.state = "FILLING_A"
         THEN PumpFinishA(r, IF r.buffer_b_valid > 0 THEN "READY" ELSE "EOF")
         ELSE PumpFinishB(r, IF r.buffer_a_valid > 0 THEN "READY" ELSE "EOF")
    ELSE LET remaining_in_buffer == BufBytes - r.fill_offset
             remaining_in_file == r.file_size - r.file_pos
             to_read == Min(Min(ChunkBytes, remaining_in_buffer), remaining_in_file)
             br == Min(to_read, IF r.file_size > r.fptr THEN r.file_size - r.fptr ELSE 0)
         IN  IF ~ok THEN [r EXCEPT !.state = "ERROR"]
             ELSE LET r1 == [r EXCEPT
                        !.buffer_a = IF r.state = "FILLING_A"
                                     THEN FillBuf(@, r.fill_offset, r.fptr, br) ELSE @,
                        !.buffer_b = IF r.state = "FILLING_B"
                                     THEN FillBuf(@, r.fill_offset, r.fptr, br) ELSE @,
                        !.fill_offset = @ + br,
                        !.file_pos = @ + br,
                        !.fptr = @ + br]
                  IN  IF r1.fill_offset >= BufBytes \/ r1.file_pos >= r1.file_size
                      THEN IF r1.state = "FILLING_A"
                           THEN PumpFinishA(r1,
                                   IF r1.buffer_b_valid = 0 /\ r1.file_pos < r1.file_size
                                   THEN "FILLING_B" ELSE "READY")
                           ELSE PumpFinishB(r1, "READY")
                      ELSE r1

\* the return value of pump_stream
PumpDidWork(r) == r.state \in {"FILLING_A", "FILLING_B"}

\* fault variant of PumpStart: sd_async_pump without the refill test
pump_without_refill_test(r) == r

\* sd_async_pump: a READY stream whose inactive buffer is empty starts a refill
PumpStart(r) ==
    LET inactive == 1 - r.active_buffer
    IN  IF r.state = "READY"
        THEN IF inactive = 0 /\ r.buffer_a_valid = 0 /\ r.file_pos < r.file_size
             THEN [r EXCEPT !.state = "FILLING_A", !.fill_offset = 0]
             ELSE IF inactive = 1 /\ r.buffer_b_valid = 0 /\ r.file_pos < r.file_size
             THEN [r EXCEPT !.state = "FILLING_B", !.fill_offset = 0]
             ELSE r
        ELSE r

\* the body of the loop of sd_async_pump for one stream
PumpOne(r, ok) == pump_stream(PumpStart(r), ok)

\* the synchronous initial fill of sd_async_stream_open: pump_stream is
\* called until the stream leaves FILLING_A / FILLING_B; the f_read of call
\* number fail_in (counted from 0) fails, none if fail_in is negative
RECURSIVE OpenFill(_, _)
OpenFill(r, fail_in) ==
    IF ~PumpDidWork(r) THEN r
    ELSE OpenFill(pump_stream(r, fail_in # 0), fail_in - 1)

\* the first slot whose state is CLOSED, -1 if there is none
FreeSlot ==
    IF \E s \in Slots : streams[s].state = "CLOSED"
    THEN CHOOSE s \in Slots : /\ streams[s].state = "CLOSED"
                              /\ \A t \in Slots : t < s => streams[t].state # "CLOSED"
    ELSE -1

\* sd_async_stream_t* sd_async_stream_open(const char* path) on free slot s:
\* pop_fs_open finds no file
OpenNoFile(r) == [r EXCEPT !.file = FALSE]

\* the file of `size` bytes is opened, a psram_malloc fails
OpenNoMemory(r, size) ==
    [r EXCEPT !.file = FALSE, !.file_size = size, !.file_pos = 0, !.fptr = 0,
              !.bufs = FALSE]

\* fault variant: open returns before the initial fill
open_without_fill(r, size, fail_in) ==
    [r EXCEPT !.file = TRUE, !.file_size = size, !.file_pos = 0,
              !.fptr = 0, !.bufs = TRUE,
              !.buffer_a = EmptyBuf, !.buffer_b = EmptyBuf,
              !.buffer_a_valid = 0, !.buffer_b_valid = 0,
              !.buffer_a_consumed = 0, !.buffer_b_consumed = 0,
              !.active_buffer = 0, !.fill_offset = 0,
              !.state = "FILLING_A"]

\* the file of `size` bytes is opened and the initial fill runs
sd_async_stream_open(r, size, fail_in) ==
    OpenFill([r EXCEPT !.file = TRUE, !.file_size = size, !.file_pos = 0,
                       !.fptr = 0, !.bufs = TRUE,
                       !.buffer_a = EmptyBuf, !.buffer_b = EmptyBuf,
                       !.buffer_a_valid = 0, !.buffer_b_valid = 0,
                       !.buffer_a_consumed = 0, !.buffer_b_consumed = 0,
                       !.active_buffer = 0, !.fill_offset = 0,
                       !.state = "FILLING_A"], fail_in)

\* the f_read calls the initial fill makes for a file of `size` bytes
OpenReads(size) ==
    LET a == Min(size, BufBytes)
        b == Min(size - a, BufBytes)
    IN  ((a + ChunkBytes - 1) \div ChunkBytes) + ((b + ChunkBytes - 1) \div ChunkBytes)

Open ==
    LET s == FreeSlot
    IN  /\ IF s = -1
           THEN /\ call' = [NoCall EXCEPT !.op = "open", !.ret = -1]
                /\ UNCHANGED <<streams, got, rdpos>>
           ELSE /\ got' = [got EXCEPT ![s] = 0]
                /\ rdpos' = [rdpos EXCEPT ![s] = 0]
                /\ \/ /\ streams' = [streams EXCEPT ![s] = OpenNoFile(streams[s])]
                      /\ call' = [NoCall EXCEPT !.op = "open", !.slot = s, !.ret = -1]
                   \/ \E size \in FileSizes :
                      /\ streams' = [streams EXCEPT ![s] = OpenNoMemory(streams[s], size)]
                      /\ call' = [NoCall EXCEPT !.op = "open", !.slot = s, !.ret = -1]
                   \/ \E size \in FileSizes : \E fail_in \in (-1)..(OpenReads(size) - 1) :
                      /\ streams' = [streams EXCEPT
                            ![s] = sd_async_stream_open(streams[s], size, fail_in)]
                      /\ call' = [NoCall EXCEPT !.op = "open", !.slot = s, !.ret = 0]
        /\ UNCHANGED <<clutVars, histVars, scanVars, workVars, extraVars>>

\* bool sd_async_pump(void); oks[s]: the result of the f_read made for stream s
sd_async_pump(oks) == [s \in Slots |-> PumpOne(streams[s], oks[s])]

Pump ==
    \E oks \in [Slots -> BOOLEAN] :
        /\ streams' = sd_async_pump(oks)
        /\ call' = [NoCall EXCEPT !.op = "pump",
                       !.ret = IF \E s \in Slots : PumpDidWork(PumpStart(streams[s]))
                               THEN 1 ELSE 0]
        /\ UNCHANGED <<got, rdpos, clutVars, histVars, scanVars, workVars, extraVars>>

\* int sd_async_stream_read(sd_async_stream_t* stream, void* dest, size_t max_bytes):
\* the stream after the call, the return value and the bytes copied to dest
OtherValid(r) == IF r.active_buffer = 0 THEN r.buffer_b_valid ELSE r.buffer_a_valid

\* fault variant of ReadSwaps: the exhausted reader swaps without looking at
\* the other buffer's valid count
read_swaps_unchecked(r) ==
    /\ r.state \notin {"ERROR", "CLOSED"}
    /\ sd_async_stream_available(r) <= 0

ReadSwaps(r) ==
    /\ r.state \notin {"ERROR", "CLOSED"}
    /\ sd_async_stream_available(r) <= 0
    /\ OtherValid(r) > 0

ReadSwapped(r) ==
    IF ReadSwaps(r)
    THEN IF r.active_buffer = 0
         THEN [r EXCEPT !.buffer_a_valid = 0, !.buffer_a_consumed = 0,
                        !.active_buffer = 1]
         ELSE [r EXCEPT !.buffer_b_valid = 0, !.buffer_b_consumed = 0,
                        !.active_buffer = 0]
    ELSE r

\* fault variant of sd_async_stream_read_ret: the copy is not clamped to
\* max_bytes
read_ret_unclamped(r, max_bytes) ==
    IF r.state = "ERROR" \/ r.state = "CLOSED" THEN -1
    ELSE LET r1 == ReadSwapped(r)
             available == sd_async_stream_available(r1)
         IN  IF available <= 0
             THEN (IF r.state = "EOF" THEN -1 ELSE 0)
             ELSE available

\* fault variant of sd_async_stream_read_ret: end-of-file is reported as
\* "not ready"
read_ret_no_eof(r, max_bytes) ==
    IF r.state = "ERROR" \/ r.state = "CLOSED" THEN -1
    ELSE LET r1 == ReadSwapped(r)
             available == sd_async_stream_available(r1)
         IN  IF available <= 0 THEN 0 ELSE Min(max_bytes, available)

sd_async_stream_read_ret(r, max_bytes) ==
    IF r.state = "ERROR" \/ r.state = "CLOSED" THEN -1
    ELSE LET r1 == ReadSwapped(r)
             available == sd_async_stream_available(r1)
         IN  IF available <= 0
             THEN (IF r.state = "EOF" THEN -1 ELSE 0)
             ELSE Min(max_bytes, available)

\* fault variant of sd_async_stream_read: the consumed count is not advanced
read_without_consume(r, max_bytes) == ReadSwapped(r)

\* fault variant of sd_async_stream_read: the consumed count is advanced by
\* max_bytes instead of the number of bytes copied
read_consumes_request(r, max_bytes) ==
    LET ret == sd_async_stream_read_ret(r, max_bytes)
        r1 == ReadSwapped(r)
    IN  IF ret <= 0 THEN r1
        ELSE IF r1.active_buffer = 0
        THEN [r1 EXCEPT !.buffer_a_consumed = @ + max_bytes]
        ELSE [r1 EXCEPT !.buffer_b_consumed = @ + max_bytes]

sd_async_stream_read(r, max_bytes) ==
    LET ret == sd_async_stream_read_ret(r, max_bytes)
        r1 == ReadSwapped(r)
    IN  IF ret <= 0 THEN r1
        ELSE IF r1.active_buffer = 0
        THEN [r1 EXCEPT !.buffer_a_consumed = @ + ret]
        ELSE [r1 EXCEPT !.buffer_b_consumed = @ + ret]

\* the bytes memcpy moves to dest
ReadData(r, max_bytes) ==
    LET ret == sd_async_stream_read_ret(r, max_bytes)
        r1 == ReadSwapped(r)
        buf == IF r1.active_buffer = 0 THEN r1.buffer_a ELSE r1.buffer_b
        consumed == IF r1.active_buffer = 0 THEN r1.buffer_a_consumed
                    ELSE r1.buffer_b_consumed
    IN  IF ret <= 0 THEN <<>>
        ELSE [k \in 1..ret |-> buf[consumed + k - 1]]

Read(s, max_bytes) ==
    LET r == streams[s]
        ret == sd_async_stream_read_ret(r, max_bytes)
    IN  /\ streams' = [streams EXCEPT ![s] = sd_async_stream_read(r, max_bytes)]
        /\ call' = [op |-> "read", slot |-> s, n |-> max_bytes, ret |-> ret,
                    avail |-> sd_async_stream_available(r),
                    other |-> OtherValid(r), pre_got |-> got[s],
                    swapped |-> ReadSwaps(r), data |-> ReadData(r, max_bytes)]
        /\ got' = [got EXCEPT ![s] = IF @ >= 0 /\ ret > 0 THEN @ + ret ELSE @]
        /\ rdpos' = [rdpos EXCEPT ![s] = IF ret > 0 THEN @ + ret ELSE @]
        /\ UNCHANGED <<clutVars, histVars, scanVars, workVars, extraVars>>

\* int sd_async_stream_seek(sd_async_stream_t* stream, size_t position);
\* ok: the result of f_lseek
sd_async_stream_seek(r, position, ok) ==
    IF ~r.file THEN r
    ELSE IF ~ok THEN [r EXCEPT !.state = "ERROR"]
    ELSE [r EXCEPT !.fptr = Min(position, r.file_size),
                   !.file_pos = position,
                   !.buffer_a_valid = 0, !.buffer_b_valid = 0,
                   !.buffer_a_consumed = 0, !.buffer_b_consumed = 0,
                   !.active_buffer = 0, !.fill_offset = 0,
                   !.state = IF position < r.file_size THEN "FILLING_A" ELSE "EOF"]

Seek(s, position) ==
    \E ok \in BOOLEAN :
        LET r == streams[s]
        IN  /\ streams' = [streams EXCEPT ![s] = sd_async_stream_seek(r, position, ok)]
            /\ call' = [NoCall EXCEPT !.op = "seek", !.slot = s, !.n = position,
                                      !.ret = IF r.file /\ ok THEN 0 ELSE -1]
            /\ got' = [got EXCEPT ![s] = -1]
            /\ rdpos' = [rdpos EXCEPT ![s] = IF r.file /\ ok THEN position ELSE @]
            /\ UNCHANGED <<clutVars, histVars, scanVars, workVars, extraVars>>

\* void sd_async_stream_close(sd_async_stream_t* stream)
sd_async_stream_close(r) ==
    [r EXCEPT !.file = FALSE, !.bufs = FALSE, !.buffer_a = EmptyBuf,
              !.buffer_b = EmptyBuf, !.state = "CLOSED"]

Close(s) ==
    /\ streams' = [streams EXCEPT ![s] = sd_async_stream_close(streams[s])]
    /\ call' = [NoCall EXCEPT !.op = "close", !.slot = s]
    /\ UNCHANGED <<got, rdpos, clutVars, histVars, scanVars, workVars, extraVars>>

(***************************************************************************)
(* Specifications.                                                         *)
(***************************************************************************)
\* ======================================================================
\* Worker (core 1) variant of the stream scheduler, src/SDL_port.c 2558-3369.
\* Core 0 calls the API; core 1 runs core1_worker. Each action below is one
\* step of one core between two points where the other core can run.
\* A path is modelled by the size of the file it names, -1 when it cannot
\* be opened.
\* ======================================================================
ReqSlots == 0..(NumRequests - 1)
ReqIds == 1..MaxReqIds
ShotPaths == {-1, ChunkBytes + 1}
ShotBytes == {0, BufBytes}
WorkPaths == {-1, 0, BufBytes - 1, 2 * BufBytes + 1}
WorkReadSizes == {1, BufBytes}
WorkSeekPositions == {1, 2 * BufBytes + 1}

\* memset(streams, 0, ...) then state = STREAM_STATE_CLOSED
ClosedWorkStream ==
    [state |-> "CLOSED", path |-> -1, file |-> FALSE, file_size |-> 0,
     file_pos |-> 0, bufs |-> FALSE,
     buffer_a_valid |-> 0, buffer_b_valid |-> 0,
     buffer_a_consumed |-> 0, buffer_b_consumed |-> 0,
     active_buffer |-> 0, seek_target |-> 0,
     a_off |-> 0, b_off |-> 0]

\* memset(requests, 0, ...): REQ_STATE_FREE is 0
FreeRequest ==
    [state |-> "FREE", path |-> -1, max_bytes |-> 0, result |-> 0, id |-> 0]

NoLog ==
    [path |-> -1, max_bytes |-> 0, in_progress |-> FALSE, done |-> << >>,
     observed |-> FALSE, cancelled |-> FALSE,
     cancel_pre |-> "none", io_after_cancel |-> FALSE]

WorkerIdle ==
    [pc |-> "stream_scan", i |-> 0, ret |-> "ready", buf |-> 0, to_read |-> 0,
     bytes_read |-> 0, waited |-> FALSE, br |-> 0]

Core0Idle == [pc |-> "idle", slot |-> 0, id |-> 0]

NoDev == [op |-> "none", ctx |-> "none", bytes |-> 0, waited |-> FALSE,
          stale |-> FALSE]

NoWorkCall == [op |-> "none", slot |-> -1, arg |-> 0, ret |-> 0, off |-> 0,
               avail |-> 0, a_valid |-> 0, b_valid |-> 0, state |-> "none"]

WorkInit ==
    /\ wstreams = [s \in Slots |-> ClosedWorkStream]
    /\ whandle = [s \in Slots |-> FALSE]
    /\ requests = [j \in ReqSlots |-> FreeRequest]
    /\ g_next_req_id = 1
    /\ g_sd_mutex = "none"
    /\ wk = WorkerIdle
    /\ c0 = Core0Idle
    /\ in_fatfs = {}
    /\ mutex_in_wait = FALSE
    /\ dev = NoDev
    /\ reqlog = [id \in ReqIds |-> NoLog]
    /\ wcall = NoWorkCall
    /\ wcursor = [s \in Slots |-> 0]

\* fault variant: mutex_enter_blocking returns without waiting for the owner
mutex_never_blocks == TRUE

\* mutex_enter_blocking(&g_sd_mutex) can return: nobody owns the mutex
MutexFree == g_sd_mutex = "none"

\* ---- core 1: core1_worker ------------------------------------------------

\* end of the body of the stream loop for stream wk.i
NextStream ==
    IF wk.i + 1 < NumStreams
    THEN [wk EXCEPT !.pc = "stream_scan", !.i = wk.i + 1]
    ELSE [wk EXCEPT !.pc = "req_scan", !.i = 0]

\* end of the body of the request loop for request wk.i
NextRequest ==
    IF wk.i + 1 < NumRequests
    THEN [wk EXCEPT !.pc = "req_scan", !.i = wk.i + 1]
    ELSE [wk EXCEPT !.pc = "stream_scan", !.i = 0]

\* return from the outermost process_stream_work call
PswReturn ==
    IF wk.ret = "ready" THEN [wk EXCEPT !.pc = "stream_ready"] ELSE NextStream

workGhost == <<in_fatfs, mutex_in_wait, dev, reqlog, wcall, wcursor>>
coreVars == <<c0, whandle>>
otherVars == <<clutVars, histVars, scanVars, coopVars, extraVars>>

\* stream_state_t state = s->state; if (state is an active state) process_stream_work(s)
W_StreamScan ==
    /\ wk.pc = "stream_scan"
    /\ wk' = IF wstreams[wk.i].state \notin {"CLOSED", "READY", "EOF", "ERROR"}
            THEN [wk EXCEPT !.pc = "psw", !.ret = "ready"]
            ELSE [wk EXCEPT !.pc = "stream_ready"]
    /\ UNCHANGED <<wstreams, requests, g_next_req_id, g_sd_mutex, coreVars,
                   workGhost, otherVars>>

\* if (s->state == STREAM_STATE_READY) { ... needs_fill ... }
NeedsFill(s) ==
    /\ s.state = "READY"
    /\ s.file_pos < s.file_size
    /\ \/ s.active_buffer = 1 /\ s.buffer_a_valid = 0
       \/ s.active_buffer = 0 /\ s.buffer_b_valid = 0

W_StreamReady ==
    /\ wk.pc = "stream_ready"
    /\ LET s == wstreams[wk.i] IN
        IF NeedsFill(s)
        THEN /\ wstreams' = [wstreams EXCEPT ![wk.i].state =
                    IF s.active_buffer = 1 THEN "FILLING_A" ELSE "FILLING_B"]
             /\ wk' = [wk EXCEPT !.pc = "psw", !.ret = "next"]
        ELSE /\ wk' = NextStream
             /\ UNCHANGED wstreams
    /\ UNCHANGED <<requests, g_next_req_id, g_sd_mutex, coreVars, workGhost,
                   otherVars>>

\* process_stream_work, case STREAM_STATE_OPENING: mutex_enter_blocking
W_PswOpening ==
    /\ wk.pc = "psw"
    /\ wstreams[wk.i].state = "OPENING"
    /\ MutexFree
    /\ g_sd_mutex' = "core1"
    /\ in_fatfs' = in_fatfs \cup {"core1"}
    /\ wk' = [wk EXCEPT !.pc = "open_io"]
    /\ UNCHANGED <<wstreams, requests, g_next_req_id, coreVars, mutex_in_wait,
                   dev, reqlog, wcall, wcursor, otherVars>>

\* pop_fs_open, f_size, mutex_exit and the stores that follow
W_OpenIO ==
    /\ wk.pc = "open_io"
    /\ LET s == wstreams[wk.i] IN
        /\ g_sd_mutex' = "none"
        /\ in_fatfs' = in_fatfs \ {"core1"}
        /\ dev' = [NoDev EXCEPT !.op = "open", !.ctx = "core1"]
        /\ IF s.path = -1
           THEN /\ wstreams' = [wstreams EXCEPT ![wk.i].state = "ERROR"]
                /\ wk' = PswReturn
           ELSE /\ wstreams' = [wstreams EXCEPT ![wk.i] =
                        [s EXCEPT !.file = TRUE, !.file_size = s.path,
                                  !.file_pos = 0, !.state = "FILLING_A"]]
                /\ wk' = [wk EXCEPT !.pc = "psw"]
    /\ UNCHANGED <<requests, g_next_req_id, coreVars, mutex_in_wait, reqlog,
                   wcall, wcursor, otherVars>>

\* process_stream_work, cases STREAM_STATE_FILLING_A and STREAM_STATE_FILLING_B
\* up to the call of chunked_sd_read
W_PswFilling ==
    /\ wk.pc = "psw"
    /\ wstreams[wk.i].state \in {"FILLING_A", "FILLING_B"}
    /\ LET s == wstreams[wk.i]
           isA == s.state = "FILLING_A"
           other_valid == IF isA THEN s.buffer_b_valid ELSE s.buffer_a_valid
       IN  IF ~s.file \/ s.file_pos >= s.file_size
           THEN /\ wstreams' = [wstreams EXCEPT ![wk.i] =
                        [s EXCEPT !.buffer_a_valid = IF isA THEN 0 ELSE @,
                                  !.buffer_b_valid = IF isA THEN @ ELSE 0,
                                  !.state = IF other_valid > 0 THEN "READY"
                                                               ELSE "EOF"]]
                /\ wk' = PswReturn
           ELSE /\ wk' = [wk EXCEPT !.pc = "fill_wait",
                                  !.buf = IF isA THEN 0 ELSE 1,
                                  !.to_read = Min(BufBytes, s.file_size - s.file_pos),
                                  !.bytes_read = 0]
                /\ UNCHANGED wstreams
    /\ UNCHANGED <<requests, g_next_req_id, g_sd_mutex, coreVars, workGhost,
                   otherVars>>

\* chunked_sd_read: wait_for_vblank_or_timeout()
W_FillWait ==
    /\ wk.pc = "fill_wait"
    /\ wk' = [wk EXCEPT !.pc = "fill_lock", !.waited = TRUE]
    /\ mutex_in_wait' = (mutex_in_wait \/ g_sd_mutex = "core1")
    /\ UNCHANGED <<wstreams, requests, g_next_req_id, g_sd_mutex, coreVars,
                   in_fatfs, dev, reqlog, wcall, wcursor, otherVars>>

\* chunked_sd_read: chunk size, mutex_enter_blocking, start of f_read
Chunk(total, done) == Min(SD_READ_CHUNK_SIZE, total - done)

W_FillLock ==
    /\ wk.pc = "fill_lock"
    /\ MutexFree
    /\ g_sd_mutex' = "core1"
    /\ in_fatfs' = in_fatfs \cup {"core1"}
    /\ dev' = [op |-> "read", ctx |-> "core1",
               bytes |-> Chunk(wk.to_read, wk.bytes_read), waited |-> wk.waited,
               stale |-> (~wstreams[wk.i].file \/ ~wstreams[wk.i].bufs)]
    /\ wk' = [wk EXCEPT !.pc = "fill_io", !.waited = FALSE]
    /\ UNCHANGED <<wstreams, requests, g_next_req_id, coreVars, mutex_in_wait,
                   reqlog, wcall, wcursor, otherVars>>

\* chunked_sd_read: end of f_read, mutex_exit, loop test
W_FillIO(ok) ==
    /\ wk.pc = "fill_io"
    /\ g_sd_mutex' = "none"
    /\ in_fatfs' = in_fatfs \ {"core1"}
    /\ LET done == wk.bytes_read + Chunk(wk.to_read, wk.bytes_read) IN
        wk' = IF ~ok THEN [wk EXCEPT !.pc = "fill_done", !.br = 0]
             ELSE IF done < wk.to_read
             THEN [wk EXCEPT !.pc = "fill_wait", !.bytes_read = done]
             ELSE [wk EXCEPT !.pc = "fill_done", !.bytes_read = done, !.br = done]
    /\ UNCHANGED <<wstreams, requests, g_next_req_id, coreVars, mutex_in_wait,
                   dev, reqlog, wcall, wcursor, otherVars>>

\* process_stream_work after chunked_sd_read returned br
W_FillDone ==
    /\ wk.pc = "fill_done"
    /\ LET s == wstreams[wk.i]
           pos == s.file_pos + wk.br
       IN  IF wk.br = 0
           THEN /\ wstreams' = [wstreams EXCEPT ![wk.i].state = "ERROR"]
                /\ wk' = PswReturn
           ELSE IF wk.buf = 0
           THEN IF s.buffer_b_valid = 0 /\ pos < s.file_size
                THEN /\ wstreams' = [wstreams EXCEPT ![wk.i] =
                            [s EXCEPT !.buffer_a_valid = wk.br,
                                      !.buffer_a_consumed = 0,
                                      !.a_off = s.file_pos, !.file_pos = pos,
                                      !.state = "FILLING_B"]]
                     /\ wk' = [wk EXCEPT !.pc = "psw"]
                ELSE /\ wstreams' = [wstreams EXCEPT ![wk.i] =
                            [s EXCEPT !.buffer_a_valid = wk.br,
                                      !.buffer_a_consumed = 0,
                                      !.a_off = s.file_pos, !.file_pos = pos,
                                      !.state = "READY"]]
                     /\ wk' = PswReturn
           ELSE /\ wstreams' = [wstreams EXCEPT ![wk.i] =
                        [s EXCEPT !.buffer_b_valid = wk.br,
                                  !.buffer_b_consumed = 0,
                                  !.b_off = s.file_pos, !.file_pos = pos,
                                  !.state = "READY"]]
                /\ wk' = PswReturn
    /\ UNCHANGED <<requests, g_next_req_id, g_sd_mutex, coreVars, workGhost,
                   otherVars>>

\* process_stream_work, case STREAM_STATE_SEEKING up to f_lseek
W_PswSeeking ==
    /\ wk.pc = "psw"
    /\ wstreams[wk.i].state = "SEEKING"
    /\ IF ~wstreams[wk.i].file
       THEN /\ wstreams' = [wstreams EXCEPT ![wk.i].state = "ERROR"]
            /\ wk' = PswReturn
            /\ UNCHANGED <<g_sd_mutex, in_fatfs>>
       ELSE /\ MutexFree
            /\ g_sd_mutex' = "core1"
            /\ in_fatfs' = in_fatfs \cup {"core1"}
            /\ wk' = [wk EXCEPT !.pc = "seek_io"]
            /\ UNCHANGED wstreams
    /\ UNCHANGED <<requests, g_next_req_id, coreVars, mutex_in_wait, dev,
                   reqlog, wcall, wcursor, otherVars>>

\* f_lseek, mutex_exit and the stores that follow
W_SeekIO(ok) ==
    /\ wk.pc = "seek_io"
    /\ g_sd_mutex' = "none"
    /\ in_fatfs' = in_fatfs \ {"core1"}
    /\ dev' = [NoDev EXCEPT !.op = "seek", !.ctx = "core1",
                            !.stale = ~wstreams[wk.i].file]
    /\ LET s == wstreams[wk.i] IN
        IF ~ok
        THEN /\ wstreams' = [wstreams EXCEPT ![wk.i].state = "ERROR"]
             /\ wk' = PswReturn
        ELSE /\ wstreams' = [wstreams EXCEPT ![wk.i] =
                     [s EXCEPT !.file_pos = s.seek_target,
                               !.buffer_a_valid = 0, !.buffer_b_valid = 0,
                               !.buffer_a_consumed = 0, !.buffer_b_consumed = 0,
                               !.active_buffer = 0, !.state = "FILLING_A"]]
             /\ wk' = [wk EXCEPT !.pc = "psw"]
    /\ UNCHANGED <<requests, g_next_req_id, coreVars, mutex_in_wait, reqlog,
                   wcall, wcursor, otherVars>>

\* process_stream_work, default: the state is no longer an active one
W_PswOther ==
    /\ wk.pc = "psw"
    /\ wstreams[wk.i].state \in {"CLOSED", "READY", "EOF", "ERROR"}
    /\ wk' = PswReturn
    /\ UNCHANGED <<wstreams, requests, g_next_req_id, g_sd_mutex, coreVars,
                   workGhost, otherVars>>

\* ---- core 1: one-shot requests -------------------------------------------

LogOf(id) == IF id \in ReqIds THEN reqlog[id] ELSE NoLog

LogSet(id, l) == IF id \in ReqIds THEN [reqlog EXCEPT ![id] = l] ELSE reqlog

\* if (r->state == REQ_STATE_PENDING)
W_ReqScan ==
    /\ wk.pc = "req_scan"
    /\ wk' = IF requests[wk.i].state = "PENDING"
            THEN [wk EXCEPT !.pc = "req_dispatch"]
            ELSE NextRequest
    /\ UNCHANGED <<wstreams, requests, g_next_req_id, g_sd_mutex, coreVars,
                   workGhost, otherVars>>

\* r->state = REQ_STATE_IN_PROGRESS
W_ReqDispatch ==
    /\ wk.pc = "req_dispatch"
    /\ requests' = [requests EXCEPT ![wk.i].state = "IN_PROGRESS"]
    /\ reqlog' = LogSet(requests[wk.i].id,
                        [LogOf(requests[wk.i].id) EXCEPT !.in_progress = TRUE])
    /\ wk' = [wk EXCEPT !.pc = "req_lock"]
    /\ UNCHANGED <<wstreams, g_next_req_id, g_sd_mutex, coreVars, in_fatfs,
                   mutex_in_wait, dev, wcall, wcursor, otherVars>>

\* process_oneshot_work: mutex_enter_blocking
W_ReqLock ==
    /\ wk.pc = "req_lock"
    /\ MutexFree
    /\ g_sd_mutex' = "core1"
    /\ in_fatfs' = in_fatfs \cup {"core1"}
    /\ wk' = [wk EXCEPT !.pc = "req_io"]
    /\ UNCHANGED <<wstreams, requests, g_next_req_id, coreVars, mutex_in_wait,
                   dev, reqlog, wcall, wcursor, otherVars>>

\* pop_fs_open, f_size, f_read into r->dest, pop_fs_close, mutex_exit
W_ReqIO(ok) ==
    /\ wk.pc = "req_io"
    /\ g_sd_mutex' = "none"
    /\ in_fatfs' = in_fatfs \ {"core1"}
    /\ LET r == requests[wk.i]
           to_read == Min(r.max_bytes, r.path)
       IN  IF r.path = -1
           THEN /\ wk' = [wk EXCEPT !.pc = "req_store", !.br = -1]
                /\ dev' = [NoDev EXCEPT !.op = "open", !.ctx = "core1"]
                /\ reqlog' = LogSet(r.id,
                        [LogOf(r.id) EXCEPT !.io_after_cancel = @ \/ LogOf(r.id).cancelled])
           ELSE /\ wk' = [wk EXCEPT !.pc = "req_store",
                                  !.br = IF ok THEN to_read ELSE -1]
                /\ dev' = [op |-> "read", ctx |-> "core1", bytes |-> to_read,
                           waited |-> wk.waited, stale |-> FALSE]
                /\ reqlog' = LogSet(r.id,
                        [LogOf(r.id) EXCEPT !.io_after_cancel = @ \/ LogOf(r.id).cancelled])
    /\ UNCHANGED <<wstreams, requests, g_next_req_id, coreVars, mutex_in_wait,
                   wcall, wcursor, otherVars>>

\* r->result = ...; r->state = REQ_STATE_COMPLETE or REQ_STATE_ERROR
W_ReqStore ==
    /\ wk.pc = "req_store"
    /\ LET st == IF wk.br = -1 THEN "ERROR" ELSE "COMPLETE" IN
        /\ requests' = [requests EXCEPT ![wk.i].result = wk.br, ![wk.i].state = st]
        /\ reqlog' = LogSet(requests[wk.i].id,
                        [LogOf(requests[wk.i].id) EXCEPT !.done = <<wk.br>>])
    /\ wk' = NextRequest
    /\ UNCHANGED <<wstreams, g_next_req_id, g_sd_mutex, coreVars, in_fatfs,
                   mutex_in_wait, dev, wcall, wcursor, otherVars>>

\* ---- core 0: one-shot API -------------------------------------------------

Reusable(j) == requests[j].state \in {"FREE", "COMPLETE", "ERROR"}

\* the first slot sd_async_read_file may take, -1 when there is none
FreeRequestSlot ==
    IF \E j \in ReqSlots : Reusable(j)
    THEN CHOOSE j \in ReqSlots : Reusable(j) /\ \A k \in 0..(j - 1) : ~Reusable(k)
    ELSE -1

\* the first slot whose id is req, -1 when there is none
FindRequest(req) ==
    IF \E j \in ReqSlots : requests[j].id = req
    THEN CHOOSE j \in ReqSlots :
            requests[j].id = req /\ \A k \in 0..(j - 1) : requests[k].id # req
    ELSE -1

\* sd_async_req_id sd_async_read_file(path, dest, max_bytes)
sd_async_read_file(path, max_bytes) ==
    LET j == FreeRequestSlot IN
    IF j = -1
    THEN /\ wcall' = [NoWorkCall EXCEPT !.op = "read_file", !.ret = 0]
         /\ UNCHANGED <<requests, g_next_req_id, reqlog>>
    ELSE /\ g_next_req_id <= MaxReqIds
         /\ requests' = [requests EXCEPT ![j] =
                [state |-> "PENDING", path |-> path, max_bytes |-> max_bytes,
                 result |-> 0, id |-> g_next_req_id]]
         /\ g_next_req_id' = g_next_req_id + 1
         /\ reqlog' = [reqlog EXCEPT ![g_next_req_id] =
                [NoLog EXCEPT !.path = path, !.max_bytes = max_bytes]]
         /\ wcall' = [NoWorkCall EXCEPT !.op = "read_file", !.slot = j,
                                        !.ret = g_next_req_id]

Submit(path, max_bytes) ==
    /\ c0.pc = "idle"
    /\ sd_async_read_file(path, max_bytes)
    /\ UNCHANGED <<wstreams, g_sd_mutex, wk, coreVars, in_fatfs, mutex_in_wait,
                   dev, wcursor, otherVars>>

\* bool sd_async_is_complete(req)
sd_async_is_complete(req) ==
    IF req = 0 THEN TRUE
    ELSE LET j == FindRequest(req) IN
         IF j = -1 THEN TRUE ELSE requests[j].state \in {"COMPLETE", "ERROR"}

\* fault variant: an id that is found in no slot reports 0 bytes
get_result_unknown_is_zero(req) ==
    IF req = 0 THEN -1
    ELSE LET j == FindRequest(req) IN
         IF j = -1 THEN 0 ELSE requests[j].result

\* int sd_async_get_result(req)
sd_async_get_result(req) ==
    IF req = 0 THEN -1
    ELSE LET j == FindRequest(req) IN
         IF j = -1 THEN -1 ELSE requests[j].result

Issued == 1..(g_next_req_id - 1)

IsComplete(req) ==
    /\ c0.pc = "idle"
    /\ req \in Issued
    /\ wcall' = [NoWorkCall EXCEPT !.op = "is_complete", !.arg = req,
                     !.ret = IF sd_async_is_complete(req) THEN 1 ELSE 0]
    /\ reqlog' = [reqlog EXCEPT ![req].observed = @ \/ sd_async_is_complete(req)]
    /\ UNCHANGED <<wstreams, requests, g_next_req_id, g_sd_mutex, wk, coreVars,
                   in_fatfs, mutex_in_wait, dev, wcursor, otherVars>>

GetResult(req) ==
    /\ c0.pc = "idle"
    /\ req \in Issued
    /\ wcall' = [NoWorkCall EXCEPT !.op = "get_result", !.arg = req,
                                   !.ret = sd_async_get_result(req)]
    /\ UNCHANGED <<wstreams, requests, g_next_req_id, g_sd_mutex, wk, coreVars,
                   in_fatfs, mutex_in_wait, dev, reqlog, wcursor, otherVars>>

\* the first slot that sd_async_cancel's test accepts, -1 when there is none
CancelTarget(req) ==
    LET hit(j) == requests[j].id = req /\ requests[j].state = "PENDING" IN
    IF \E j \in ReqSlots : hit(j)
    THEN CHOOSE j \in ReqSlots : hit(j) /\ \A k \in 0..(j - 1) : ~hit(k)
    ELSE -1

\* sd_async_cancel: if (requests[i].id == req && requests[i].state == PENDING)
CancelCheck(req) ==
    /\ c0.pc = "idle"
    /\ req \in Issued
    /\ wcall' = [NoWorkCall EXCEPT !.op = "cancel", !.arg = req,
                                   !.slot = CancelTarget(req)]
    /\ c0' = IF CancelTarget(req) = -1 THEN c0
             ELSE [pc |-> "cancel_store", slot |-> CancelTarget(req), id |-> req]
    /\ UNCHANGED <<wstreams, requests, g_next_req_id, g_sd_mutex, wk, whandle,
                   in_fatfs, mutex_in_wait, dev, reqlog, wcursor, otherVars>>

\* sd_async_cancel: requests[i].state = REQ_STATE_FREE
CancelStore ==
    /\ c0.pc = "cancel_store"
    /\ requests' = [requests EXCEPT ![c0.slot].state = "FREE"]
    /\ reqlog' = [reqlog EXCEPT ![c0.id] =
            [@ EXCEPT !.cancelled = TRUE, !.cancel_pre = requests[c0.slot].state]]
    /\ c0' = Core0Idle
    /\ UNCHANGED <<wstreams, g_next_req_id, g_sd_mutex, wk, whandle, in_fatfs,
                   mutex_in_wait, dev, wcall, wcursor, otherVars>>

\* ---- core 0: stream API of the worker variant ----------------------------

\* fault variant: when no slot is CLOSED the first slot is taken
first_slot_when_full ==
    IF \E s \in Slots : wstreams[s].state = "CLOSED"
    THEN CHOOSE s \in Slots :
            wstreams[s].state = "CLOSED"
            /\ \A k \in 0..(s - 1) : wstreams[k].state # "CLOSED"
    ELSE 0

\* the first slot whose state is CLOSED, -1 if there is none
FreeWorkSlot ==
    IF \E s \in Slots : wstreams[s].state = "CLOSED"
    THEN CHOOSE s \in Slots :
            wstreams[s].state = "CLOSED"
            /\ \A k \in 0..(s - 1) : wstreams[k].state # "CLOSED"
    ELSE -1

WorkAvailable(s) ==
    IF s.active_buffer = 0 THEN s.buffer_a_valid - s.buffer_a_consumed
                           ELSE s.buffer_b_valid - s.buffer_b_consumed

Snapshot(op, slot, ret, arg) ==
    IF slot = -1
    THEN [NoWorkCall EXCEPT !.op = op, !.ret = ret, !.arg = arg]
    ELSE [op |-> op, slot |-> slot, arg |-> arg, ret |-> ret,
          off |-> wstreams[slot].file_pos,
          avail |-> WorkAvailable(wstreams[slot]),
          a_valid |-> wstreams[slot].buffer_a_valid,
          b_valid |-> wstreams[slot].buffer_b_valid,
          state |-> wstreams[slot].state]

\* sd_async_stream_open up to s->state = STREAM_STATE_OPENING
WOpenStart(path, mem_ok) ==
    /\ c0.pc = "idle"
    /\ LET s == FreeWorkSlot IN
        IF s = -1 \/ ~mem_ok
        THEN /\ wcall' = [NoWorkCall EXCEPT !.op = "open", !.ret = -1, !.arg = s]
             /\ UNCHANGED <<wstreams, c0>>
        ELSE /\ wstreams' = [wstreams EXCEPT ![s] =
                    [ClosedWorkStream EXCEPT !.bufs = TRUE, !.path = path,
                                             !.state = "OPENING"]]
             /\ c0' = [pc |-> "open_wait", slot |-> s, id |-> 0]
             /\ wcall' = [NoWorkCall EXCEPT !.op = "open_start", !.slot = s]
    /\ UNCHANGED <<requests, g_next_req_id, g_sd_mutex, wk, whandle, in_fatfs,
                   mutex_in_wait, dev, reqlog, wcursor, otherVars>>

\* sd_async_stream_open: end of the wait loop and return
WOpenFinish ==
    /\ c0.pc = "open_wait"
    /\ wstreams[c0.slot].state \notin {"OPENING", "FILLING_A", "FILLING_B"}
    /\ IF wstreams[c0.slot].state = "ERROR"
       THEN /\ wstreams' = [wstreams EXCEPT ![c0.slot].bufs = FALSE,
                                            ![c0.slot].state = "CLOSED"]
            /\ wcall' = [NoWorkCall EXCEPT !.op = "open", !.ret = -1,
                                           !.arg = c0.slot]
            /\ UNCHANGED <<whandle, wcursor>>
       ELSE /\ wcall' = Snapshot("open", c0.slot, c0.slot, 0)
            /\ whandle' = [whandle EXCEPT ![c0.slot] = TRUE]
            /\ wcursor' = [wcursor EXCEPT ![c0.slot] = 0]
            /\ UNCHANGED wstreams
    /\ c0' = Core0Idle
    /\ UNCHANGED <<requests, g_next_req_id, g_sd_mutex, wk, in_fatfs,
                   mutex_in_wait, dev, reqlog, otherVars>>

\* int sd_async_stream_read(stream, dest, max_bytes) of the worker variant
WorkSwaps(s) ==
    /\ WorkAvailable(s) <= 0
    /\ (IF s.active_buffer = 0 THEN s.buffer_b_valid ELSE s.buffer_a_valid) > 0

WorkSwapped(s) ==
    IF WorkSwaps(s)
    THEN [s EXCEPT !.buffer_a_valid = IF s.active_buffer = 0 THEN 0 ELSE @,
                   !.buffer_a_consumed = IF s.active_buffer = 0 THEN 0 ELSE @,
                   !.buffer_b_valid = IF s.active_buffer = 1 THEN 0 ELSE @,
                   !.buffer_b_consumed = IF s.active_buffer = 1 THEN 0 ELSE @,
                   !.active_buffer = 1 - s.active_buffer]
    ELSE s

work_read_ret(s, max_bytes) ==
    IF max_bytes = 0 THEN 0
    ELSE IF s.state = "ERROR" THEN -1
    ELSE IF WorkAvailable(WorkSwapped(s)) <= 0
         THEN (IF s.state = "EOF" THEN -1 ELSE 0)
    ELSE Min(max_bytes, WorkAvailable(WorkSwapped(s)))

work_read(s, max_bytes) ==
    IF max_bytes = 0 \/ s.state = "ERROR" THEN s
    ELSE LET t == WorkSwapped(s)
             n == work_read_ret(s, max_bytes)
         IN  IF n <= 0 THEN t
             ELSE [t EXCEPT !.buffer_a_consumed = IF t.active_buffer = 0 THEN @ + n ELSE @,
                            !.buffer_b_consumed = IF t.active_buffer = 1 THEN @ + n ELSE @]

\* file offset of the first byte the read copies out
WorkReadOffset(s) ==
    LET t == WorkSwapped(s) IN
    IF t.active_buffer = 0 THEN t.a_off + t.buffer_a_consumed
                           ELSE t.b_off + t.buffer_b_consumed

WRead(s, max_bytes) ==
    /\ c0.pc = "idle"
    /\ whandle[s]
    /\ LET ret == work_read_ret(wstreams[s], max_bytes) IN
        /\ wstreams' = [wstreams EXCEPT ![s] = work_read(@, max_bytes)]
        /\ wcall' = [NoWorkCall EXCEPT !.op = "read", !.slot = s,
                        !.arg = wcursor[s], !.ret = ret,
                        !.off = IF ret > 0 THEN WorkReadOffset(wstreams[s]) ELSE 0]
        /\ wcursor' = [wcursor EXCEPT ![s] = IF ret > 0 THEN @ + ret ELSE @]
    /\ UNCHANGED <<requests, g_next_req_id, g_sd_mutex, wk, coreVars, in_fatfs,
                   mutex_in_wait, dev, reqlog, otherVars>>

\* sd_async_stream_seek up to stream->state = STREAM_STATE_SEEKING
WSeekStart(s, position) ==
    /\ c0.pc = "idle"
    /\ whandle[s]
    /\ IF wstreams[s].state = "ERROR"
       THEN /\ wcall' = Snapshot("seek", s, -1, position)
            /\ UNCHANGED <<wstreams, c0>>
       ELSE /\ wstreams' = [wstreams EXCEPT ![s].seek_target = position,
                                            ![s].state = "SEEKING"]
            /\ c0' = [pc |-> "seek_wait", slot |-> s, id |-> position]
            /\ wcall' = [NoWorkCall EXCEPT !.op = "seek_start", !.slot = s,
                            !.arg = position, !.state = wstreams[s].state]
    /\ UNCHANGED <<requests, g_next_req_id, g_sd_mutex, wk, whandle, in_fatfs,
                   mutex_in_wait, dev, reqlog, wcursor, otherVars>>

\* sd_async_stream_seek: end of the wait loop and return
WSeekFinish ==
    /\ c0.pc = "seek_wait"
    /\ wstreams[c0.slot].state # "SEEKING"
    /\ LET ret == IF wstreams[c0.slot].state = "ERROR" THEN -1 ELSE 0 IN
        /\ wcall' = Snapshot("seek", c0.slot, ret, c0.id)
        /\ wcursor' = [wcursor EXCEPT ![c0.slot] = IF ret = 0 THEN c0.id ELSE @]
    /\ c0' = Core0Idle
    /\ UNCHANGED <<wstreams, requests, g_next_req_id, g_sd_mutex, wk, whandle,
                   in_fatfs, mutex_in_wait, dev, reqlog, otherVars>>

\* sd_async_stream_close: the wait loop has ended
WCloseWait(s) ==
    /\ c0.pc = "idle"
    /\ whandle[s]
    /\ wstreams[s].state \notin {"FILLING_A", "FILLING_B", "SEEKING", "OPENING"}
    /\ c0' = [pc |-> "close_file", slot |-> s, id |-> 0]
    /\ wcall' = [NoWorkCall EXCEPT !.op = "close_start", !.slot = s,
                                   !.state = wstreams[s].state]
    /\ UNCHANGED <<wstreams, requests, g_next_req_id, g_sd_mutex, wk, whandle,
                   in_fatfs, mutex_in_wait, dev, reqlog, wcursor, otherVars>>

\* if (stream->file) { mutex_enter_blocking(&g_sd_mutex); pop_fs_close ...
WCloseFile ==
    /\ c0.pc = "close_file"
    /\ IF wstreams[c0.slot].file
       THEN /\ MutexFree
            /\ g_sd_mutex' = "core0"
            /\ in_fatfs' = in_fatfs \cup {"core0"}
            /\ c0' = [c0 EXCEPT !.pc = "close_io"]
       ELSE /\ c0' = [c0 EXCEPT !.pc = "close_free"]
            /\ UNCHANGED <<g_sd_mutex, in_fatfs>>
    /\ UNCHANGED <<wstreams, requests, g_next_req_id, wk, whandle, mutex_in_wait,
                   dev, reqlog, wcall, wcursor, otherVars>>

\* ... pop_fs_close(stream->file); mutex_exit(&g_sd_mutex); stream->file = NULL; }
WCloseIO ==
    /\ c0.pc = "close_io"
    /\ g_sd_mutex' = "none"
    /\ in_fatfs' = in_fatfs \ {"core0"}
    /\ dev' = [NoDev EXCEPT !.op = "close", !.ctx = "core0"]
    /\ wstreams' = [wstreams EXCEPT ![c0.slot].file = FALSE]
    /\ c0' = [c0 EXCEPT !.pc = "close_free"]
    /\ UNCHANGED <<requests, g_next_req_id, wk, whandle, mutex_in_wait, reqlog,
                   wcall, wcursor, otherVars>>

\* psram_free(stream->buffer_a); psram_free(stream->buffer_b)
WCloseFree ==
    /\ c0.pc = "close_free"
    /\ wstreams' = [wstreams EXCEPT ![c0.slot].bufs = FALSE]
    /\ c0' = [c0 EXCEPT !.pc = "close_store"]
    /\ UNCHANGED <<requests, g_next_req_id, g_sd_mutex, wk, whandle, workGhost,
                   otherVars>>

\* stream->state = STREAM_STATE_CLOSED
WCloseStore ==
    /\ c0.pc = "close_store"
    /\ wstreams' = [wstreams EXCEPT ![c0.slot].state = "CLOSED"]
    /\ whandle' = [whandle EXCEPT ![c0.slot] = FALSE]
    /\ wcall' = [NoWorkCall EXCEPT !.op = "close", !.slot = c0.slot]
    /\ c0' = Core0Idle
    /\ UNCHANGED <<requests, g_next_req_id, g_sd_mutex, wk, in_fatfs,
                   mutex_in_wait, dev, reqlog, wcursor, otherVars>>

\* uint32_t sd_mutex_lock(void), followed by the caller's own FatFS calls
MutexLock ==
    /\ c0.pc = "idle"
    /\ MutexFree
    /\ g_sd_mutex' = "core0"
    /\ in_fatfs' = in_fatfs \cup {"core0"}
    /\ c0' = [c0 EXCEPT !.pc = "locked"]
    /\ UNCHANGED <<wstreams, requests, g_next_req_id, wk, whandle, mutex_in_wait,
                   dev, reqlog, wcall, wcursor, otherVars>>

\* void sd_mutex_unlock(uint32_t save)
MutexUnlock ==
    /\ c0.pc = "locked"
    /\ g_sd_mutex' = "none"
    /\ in_fatfs' = in_fatfs \ {"core0"}
    /\ c0' = Core0Idle
    /\ UNCHANGED <<wstreams, requests, g_next_req_id, wk, whandle, mutex_in_wait,
                   dev, reqlog, wcall, wcursor, otherVars>>

\* ======================================================================
\* chunked_sd_read and wait_for_vblank_or_timeout, src/SDL_port.c 2767-2819,
\* one step per poll of graphics_is_in_vblank().  The vblank signal belongs
\* to the video domain: each poll may find it set or clear.
\* ======================================================================
\* inputs: total_bytes, and the bytes the file holds after its cursor
WaitTotals == {0, 1, SD_READ_CHUNK_SIZE, 2 * SD_READ_CHUNK_SIZE + 1}
WaitFileBytes == {0, SD_READ_CHUNK_SIZE, 2 * SD_READ_CHUNK_SIZE + 1}

\* core 1 is not inside chunked_sd_read
WaitIdle ==
    [pc |-> "out", total_bytes |-> 0, left |-> 0, bytes_read |-> 0, chunk |-> 0,
     i |-> 0, polls |-> 0, timed_out |-> FALSE, chunks |-> 0, ret |-> 0]

WaitInit == vw = WaitIdle

waitOthers == <<clutVars, histVars, scanVars, coopVars, wstreams, requests,
                g_next_req_id, wk, c0, whandle, mutex_in_wait, dev, reqlog,
                wcall, wcursor, multiVars, fadeVars,
                preemptVars>>

\* fault variant of WaitLoopRuns: the loop has no iteration limit
wait_without_timeout(i) == TRUE

\* for (volatile int i = 0; i < SD_VBLANK_WAIT_TIMEOUT; i++)
WaitLoopRuns(i) == i < SD_VBLANK_WAIT_TIMEOUT

\* size_t chunked_sd_read(FIL* file, uint8_t* dest, size_t total_bytes): entry
CsrCall(total_bytes, left) ==
    /\ vw.pc = "out"
    /\ vw' = [WaitIdle EXCEPT !.pc = "loop", !.total_bytes = total_bytes,
                              !.left = left]
    /\ UNCHANGED <<g_sd_mutex, in_fatfs, waitOthers>>

\* while (bytes_read < total_bytes) { chunk = ...; wait_for_vblank_or_timeout()
CsrLoop ==
    /\ vw.pc = "loop"
    /\ vw' = IF vw.bytes_read < vw.total_bytes
             THEN [vw EXCEPT !.pc = "wait_first",
                             !.chunk = Chunk(vw.total_bytes, vw.bytes_read),
                             !.polls = 0, !.timed_out = FALSE]
             ELSE [vw EXCEPT !.pc = "out", !.ret = vw.bytes_read]
    /\ UNCHANGED <<g_sd_mutex, in_fatfs, waitOthers>>

\* wait_for_vblank_or_timeout: if (graphics_is_in_vblank()) return true;
WaitFirst(vblank) ==
    /\ vw.pc = "wait_first"
    /\ vw' = IF vblank
             THEN [vw EXCEPT !.pc = "lock", !.polls = @ + 1]
             ELSE [vw EXCEPT !.pc = "wait_loop", !.polls = @ + 1, !.i = 0]
    /\ UNCHANGED <<g_sd_mutex, in_fatfs, waitOthers>>

\* wait_for_vblank_or_timeout: the loop test and one iteration of the loop
WaitLoop(vblank) ==
    /\ vw.pc = "wait_loop"
    /\ vw' = IF ~WaitLoopRuns(vw.i)
             THEN [vw EXCEPT !.pc = "lock", !.timed_out = TRUE]
             ELSE IF vblank
             THEN [vw EXCEPT !.pc = "lock", !.polls = @ + 1]
             ELSE [vw EXCEPT !.polls = @ + 1, !.i = @ + 1]
    /\ UNCHANGED <<g_sd_mutex, in_fatfs, waitOthers>>

\* mutex_enter_blocking(&g_sd_mutex)
CsrLock ==
    /\ vw.pc = "lock"
    /\ MutexFree
    /\ g_sd_mutex' = "core1"
    /\ in_fatfs' = in_fatfs \cup {"core1"}
    /\ vw' = [vw EXCEPT !.pc = "read"]
    /\ UNCHANGED waitOthers

\* f_read(file, dest + bytes_read, chunk, &br); mutex_exit; the rest of the
\* loop body.  ok: f_read returned FR_OK
CsrRead(ok) ==
    /\ vw.pc = "read"
    /\ g_sd_mutex' = "none"
    /\ in_fatfs' = in_fatfs \ {"core1"}
    /\ LET br == Min(vw.chunk, vw.left) IN
        vw' = IF ~ok
              THEN [vw EXCEPT !.pc = "out", !.ret = 0, !.chunks = @ + 1]
              ELSE IF br < vw.chunk
              THEN [vw EXCEPT !.pc = "out", !.bytes_read = @ + br, !.left = @ - br,
                              !.ret = vw.bytes_read + br, !.chunks = @ + 1]
              ELSE [vw EXCEPT !.pc = "loop", !.bytes_read = @ + br, !.left = @ - br,
                              !.chunks = @ + 1]
    /\ UNCHANGED waitOthers

\* ======================================================================
\* The cooperative scheduler with NumPumpStreams slots: open, pump, read and
\* close as above, applied to the array mstreams.  Files are longer than
\* two buffers and the device does not fail.
\* ======================================================================
PumpSlots == 0..(NumPumpStreams - 1)

NoPumpCall == [op |-> "none", slot |-> -1, reads |-> 0, bytes |-> 0, advance |-> 0]

MultiInit ==
    /\ mstreams = [s \in PumpSlots |-> ClosedStream]
    /\ mcall = NoPumpCall

multiOthers == <<clutVars, histVars, scanVars, coopVars, workVars, waitVars,
                 fadeVars, preemptVars>>

\* the first slot whose state is CLOSED, -1 if there is none
MultiFreeSlot ==
    IF \E s \in PumpSlots : mstreams[s].state = "CLOSED"
    THEN CHOOSE s \in PumpSlots :
             /\ mstreams[s].state = "CLOSED"
             /\ \A t \in PumpSlots : t < s => mstreams[t].state # "CLOSED"
    ELSE -1

\* sd_async_stream_open of a file of `size` bytes
MultiOpen(size) ==
    LET s == MultiFreeSlot
    IN  /\ s # -1
        /\ mstreams' = [mstreams EXCEPT
                           ![s] = sd_async_stream_open(mstreams[s], size, -1)]
        /\ mcall' = [NoPumpCall EXCEPT !.op = "open", !.slot = s]
        /\ UNCHANGED multiOthers

\* pump_stream reaches its f_read for a stream in this state
PumpReads(r) == PumpDidWork(r) /\ r.file_pos < r.file_size

\* bool sd_async_pump(void): the loop over all streams
PumpAll(ss) == [s \in DOMAIN ss |-> PumpOne(ss[s], TRUE)]

RECURSIVE SumOver(_, _)
SumOver(f, S) ==
    IF S = {} THEN 0
    ELSE LET x == CHOOSE y \in S : TRUE IN f[x] + SumOver(f, S \ {x})

MultiPump ==
    LET after == PumpAll(mstreams)
        adv == [s \in PumpSlots |-> after[s].file_pos - mstreams[s].file_pos]
    IN  /\ mstreams' = after
        /\ mcall' = [op |-> "pump", slot |-> -1,
                     reads |-> Cardinality({s \in PumpSlots : adv[s] > 0}),
                     bytes |-> SumOver(adv, PumpSlots),
                     advance |-> CHOOSE a \in {adv[s] : s \in PumpSlots} :
                                     \A s \in PumpSlots : adv[s] <= a]
        /\ UNCHANGED multiOthers

MultiRead(s, max_bytes) ==
    /\ mstreams' = [mstreams EXCEPT ![s] = sd_async_stream_read(@, max_bytes)]
    /\ mcall' = [NoPumpCall EXCEPT !.op = "read", !.slot = s]
    /\ UNCHANGED multiOthers

MultiClose(s) ==
    /\ mstreams[s].state # "CLOSED"
    /\ mstreams' = [mstreams EXCEPT ![s] = sd_async_stream_close(@)]
    /\ mcall' = [NoPumpCall EXCEPT !.op = "close", !.slot = s]
    /\ UNCHANGED multiOthers

\* ======================================================================
\* The palette writer store by store.  graphics_set_palette_hdmi and
\* graphics_set_fade_level run on core 0 with interrupts enabled; the
\* scanline interrupt, and with it vsync_swap_buffers at the frame wrap,
\* can run between any two of their stores.
\* ======================================================================
WriterIdle == [pc |-> "idle", i |-> -1, color |-> 0, touched |-> {}]

PreemptInit == pw = WriterIdle

preemptOthers == <<scanVars, coopVars, workVars, waitVars, multiVars, fadeVars>>

\* the index the loop of graphics_set_fade_level visits after i, -1 at its end
NextPlain(i) ==
    IF \E j \in PlainIdx : j > i
    THEN CHOOSE j \in PlainIdx : j > i /\ \A k \in PlainIdx : k > i => j <= k
    ELSE -1

\* graphics_set_palette_hdmi(i, color888) up to the first store into the
\* back copy: palette_original[i], palette[i], return for a control index
PwCall(i, color888) ==
    /\ pw.pc = "idle"
    /\ LET faded_color == SetPaletteFaded(i, color888) IN
        /\ palette_original' = [palette_original EXCEPT ![i] = color888 % 16777216]
        /\ palette' = [palette EXCEPT ![i] = faded_color]
        /\ pw' = IF IsCtrl(i) THEN WriterIdle
                 ELSE [pc |-> "p_word0", i |-> i, color |-> faded_color,
                       touched |-> {}]
    /\ last_op' = "set_palette"
    /\ last_idx' = i
    /\ UNCHANGED <<g_hdmi_fade_level, g_hdmi_fade_rows, conv_color_front,
                   conv_color_back, conv_color_dirty, preemptOthers>>

\* conv_color64[i * 2] = get_ser_diff_data(...)
StoreWord0(clut, i, color) == [clut EXCEPT ![i][1] = ClutEntry(color)[1]]

\* conv_color64[i * 2 + 1] = conv_color64[i * 2] ^ 0x0003ffffffffffffl
StoreWord1(clut, i) == [clut EXCEPT ![i][2] = U64Xor(clut[i][1], PairMask)]

PwWord0 ==
    /\ pw.pc = "p_word0"
    /\ conv_color_back' = StoreWord0(conv_color_back, pw.i, pw.color)
    /\ pw' = [pw EXCEPT !.pc = "p_word1", !.touched = {pw.i}]
    /\ UNCHANGED <<palette, palette_original, g_hdmi_fade_level, g_hdmi_fade_rows,
                   conv_color_front, conv_color_dirty, histVars, preemptOthers>>

PwWord1 ==
    /\ pw.pc = "p_word1"
    /\ conv_color_back' = StoreWord1(conv_color_back, pw.i)
    /\ pw' = [pw EXCEPT !.pc = "dirty"]
    /\ UNCHANGED <<palette, palette_original, g_hdmi_fade_level, g_hdmi_fade_rows,
                   conv_color_front, conv_color_dirty, histVars, preemptOthers>>

\* graphics_set_fade_level(fade_level, which_rows) up to the loop
PfCall(fade_level, which_rows) ==
    /\ pw.pc = "idle"
    /\ g_hdmi_fade_level' = fade_level
    /\ g_hdmi_fade_rows' = which_rows
    /\ pw' = [pc |-> "f_word0", i |-> NextPlain(-1), color |-> 0, touched |-> {}]
    /\ last_op' = "set_fade_level"
    /\ last_idx' = -1
    /\ UNCHANGED <<palette, palette_original, conv_color_front, conv_color_back,
                   conv_color_dirty, preemptOthers>>

\* one pass of the loop up to conv_color64[i * 2] = ...
PfWord0 ==
    /\ pw.pc = "f_word0"
    /\ LET color == SetFadeColor(pw.i, g_hdmi_fade_level, g_hdmi_fade_rows) IN
        /\ palette' = [palette EXCEPT ![pw.i] = color]
        /\ conv_color_back' = StoreWord0(conv_color_back, pw.i, color)
        /\ pw' = [pw EXCEPT !.pc = "f_word1", !.color = color,
                            !.touched = @ \cup {pw.i}]
    /\ UNCHANGED <<palette_original, g_hdmi_fade_level, g_hdmi_fade_rows,
                   conv_color_front, conv_color_dirty, histVars, preemptOthers>>

\* conv_color64[i * 2 + 1] = ... and the loop step
PfWord1 ==
    /\ pw.pc = "f_word1"
    /\ conv_color_back' = StoreWord1(conv_color_back, pw.i)
    /\ pw' = IF NextPlain(pw.i) = -1 THEN [pw EXCEPT !.pc = "f_sync"]
             ELSE [pw EXCEPT !.pc = "f_word0", !.i = NextPlain(pw.i)]
    /\ UNCHANGED <<palette, palette_original, g_hdmi_fade_level, g_hdmi_fade_rows,
                   conv_color_front, conv_color_dirty, histVars, preemptOthers>>

\* graphics_restore_sync_colors() at the end of graphics_set_fade_level
PfSync ==
    /\ pw.pc = "f_sync"
    /\ conv_color_back' = WithSync(conv_color_back)
    /\ conv_color_front' = WithSync(conv_color_front)
    /\ pw' = [pw EXCEPT !.pc = "dirty"]
    /\ UNCHANGED <<palette, palette_original, g_hdmi_fade_level, g_hdmi_fade_rows,
                   conv_color_dirty, histVars, preemptOthers>>

\* fault variant of PwDirty: the call returns without setting the flag
return_without_flag ==
    /\ pw.pc = "dirty"
    /\ pw' = WriterIdle
    /\ UNCHANGED <<palette, palette_original, g_hdmi_fade_level, g_hdmi_fade_rows,
                   conv_color_front, conv_color_back, conv_color_dirty, histVars,
                   preemptOthers>>

\* conv_color_dirty = true; return
PwDirty ==
    /\ pw.pc = "dirty"
    /\ conv_color_dirty' = TRUE
    /\ pw' = WriterIdle
    /\ UNCHANGED <<palette, palette_original, g_hdmi_fade_level, g_hdmi_fade_rows,
                   conv_color_front, conv_color_back, histVars, preemptOthers>>

\* the interrupt at the frame wrap: vsync_handler runs to its end before the
\* writer goes on
PreemptVsync ==
    /\ vsync_swap_buffers
    /\ last_op' = "vsync_handler"
    /\ last_idx' = -1
    /\ UNCHANGED <<pw, preemptOthers>>

\* ======================================================================
\* apply_fade_to_color as a function of its two arguments, every value of
\* the uint8_t level included (unnamed/part_000 725-753).
\* ======================================================================
\* colours given to apply_fade_to_color: white, a colour with three
\* different channels, a value with bits above bit 23, and the darkest grey
FadeProbeColors == {16777215, 8405024, 33554431, 65793}
\* every value of a uint8_t
FadeProbeLevels == 0..255

\* the index at which apply_fade_to_color reads fade_gamma_table, -1 when
\* it returns without reading the table
FadeTableIndex(fade_level) ==
    IF fade_level = 0 THEN -1
    ELSE IF fade_level >= 48 THEN -1
    ELSE fade_level

NoFadeProbe == [color |-> 0, level |-> 255, index |-> -1, result |-> 0]

FadeInit == fade_probe = NoFadeProbe

\* one call apply_fade_to_color(color888, fade_level)
ApplyFade(color888, fade_level) ==
    /\ fade_probe' = [color |-> color888, level |-> fade_level,
                      index |-> FadeTableIndex(fade_level),
                      result |-> apply_fade_to_color(color888, fade_level)]
    /\ UNCHANGED <<clutVars, histVars, scanVars, coopVars, workVars, waitVars,
                   multiVars, preemptVars>>

\* the levels are tried in increasing order, 0 again after 255
ApplyFadeNext(color888) ==
    ApplyFade(color888, (fade_probe.level + 1) % (Cardinality(FadeProbeLevels)))

ExtraInit == WaitInit /\ MultiInit /\ FadeInit /\ PreemptInit

\* ======================================================================
\* Scanline interrupt handler: what one interrupt reads and writes.
\* ======================================================================
\* the offsets of the frame buffer the handler reads while it builds line ln
FrameReads(ln) ==
    LET y == ln \div 2
        input_buffer == get_line_buffer(y)
    IN  IF ln >= h_width \/ g_hdmi_loading_mode THEN {}
        ELSE IF input_buffer = -1 THEN {}
        ELSE IF hdmi_graphics_mode = "DEFAULT"
        THEN IF \/ graphics_buffer_shift_y > y
                \/ y >= graphics_buffer_shift_y + graphics_buffer_height
                \/ graphics_buffer_shift_x >= SCREEN_WIDTH
                \/ graphics_buffer_shift_x + graphics_buffer_width < 0
             THEN {}
             ELSE LET left == IF graphics_buffer_shift_x > 0
                              THEN graphics_buffer_shift_x ELSE 0
                      start == IF graphics_buffer_shift_x < 0
                               THEN input_buffer - graphics_buffer_shift_x
                               ELSE input_buffer
                      input_buffer_end == input_buffer + graphics_buffer_width
                  IN  IF start < input_buffer_end
                      THEN {start + x : x \in 0..(SCREEN_WIDTH - left - 1)}
                      ELSE {}
        ELSE {input_buffer + p : p \in 0..(SCREEN_WIDTH - 1)}

Init == ClutInit /\ HistInit /\ ScanInit /\ CoopInit /\ WorkInit /\ ExtraInit

NextClut ==
    \/ \E i \in PalInputs, c \in Colors : SetPalette(i, c)
    \/ \E l \in FadeLevels, m \in RowMasks : SetFadeLevel(l, m)
    \/ RestoreSyncColors
    \/ VsyncHandler

SpecClut == Init /\ [][NextClut]_vars

NextScan ==
    \/ DmaHandler
    \/ \E b \in BOOLEAN : SetLoadingMode(b)
    \/ \E p \in {"NULL", "FB"} : SetBuffer(p)
    \/ \E wh \in ResInputs : SetRes(wh[1], wh[2])
    \/ \E xy \in ShiftInputs : SetShift(xy[1], xy[2])
    \/ \E i \in {5, BASE_HDMI_CTRL_INX + 1} : ScanSetPalette(i, AllColors[1])

SpecScan == Init /\ [][NextScan]_vars

NextCoop ==
    \/ Open
    \/ Pump
    \/ \E s \in Slots, n \in ReadSizes : Read(s, n)
    \/ \E s \in Slots, p \in SeekPositions : Seek(s, p)
    \/ \E s \in Slots : Close(s)

SpecCoop == Init /\ [][NextCoop]_vars

\* the caller uses the one-shot API only: every stream stays CLOSED
NextShot ==
    \/ W_StreamScan
    \/ W_StreamReady
    \/ W_ReqScan
    \/ W_ReqDispatch
    \/ W_ReqLock
    \/ \E ok \in BOOLEAN : W_ReqIO(ok)
    \/ W_ReqStore
    \/ \E p \in ShotPaths, n \in ShotBytes : Submit(p, n)
    \/ \E id \in ReqIds : IsComplete(id)
    \/ \E id \in ReqIds : GetResult(id)
    \/ \E id \in ReqIds : CancelCheck(id)
    \/ CancelStore

SpecShot == Init /\ [][NextShot]_vars

\* the caller uses the stream API and the SD mutex
NextWork ==
    \/ W_StreamScan
    \/ W_StreamReady
    \/ W_PswOpening
    \/ W_OpenIO
    \/ W_PswFilling
    \/ W_FillWait
    \/ W_FillLock
    \/ \E ok \in BOOLEAN : W_FillIO(ok)
    \/ W_FillDone
    \/ W_PswSeeking
    \/ \E ok \in BOOLEAN : W_SeekIO(ok)
    \/ W_PswOther
    \/ W_ReqScan
    \/ \E p \in WorkPaths, m \in BOOLEAN : WOpenStart(p, m)
    \/ WOpenFinish
    \/ \E s \in Slots, n \in WorkReadSizes : WRead(s, n)
    \/ \E s \in Slots, p \in WorkSeekPositions : WSeekStart(s, p)
    \/ WSeekFinish
    \/ \E s \in Slots : WCloseWait(s)
    \/ WCloseFile
    \/ WCloseIO
    \/ WCloseFree
    \/ WCloseStore
    \/ MutexLock
    \/ MutexUnlock

SpecWork == Init /\ [][NextWork]_vars

\* the caller uses the stream API, the SD mutex and one-shot requests on one
\* file longer than two buffers: every step of either core that takes the
\* SD mutex
NextMutex ==
    \/ W_StreamScan
    \/ W_StreamReady
    \/ W_PswOpening
    \/ W_OpenIO
    \/ W_PswFilling
    \/ W_FillWait
    \/ W_FillLock
    \/ \E ok \in BOOLEAN : W_FillIO(ok)
    \/ W_FillDone
    \/ W_PswSeeking
    \/ \E ok \in BOOLEAN : W_SeekIO(ok)
    \/ W_PswOther
    \/ W_ReqScan
    \/ W_ReqDispatch
    \/ W_ReqLock
    \/ \E ok \in BOOLEAN : W_ReqIO(ok)
    \/ W_ReqStore
    \/ WOpenStart(2 * BufBytes + 1, TRUE)
    \/ WOpenFinish
    \/ \E s \in Slots : WRead(s, BufBytes)
    \/ \E s \in Slots : WSeekStart(s, 1)
    \/ WSeekFinish
    \/ \E s \in Slots : WCloseWait(s)
    \/ WCloseFile
    \/ WCloseIO
    \/ WCloseFree
    \/ WCloseStore
    \/ MutexLock
    \/ MutexUnlock
    \/ Submit(ChunkBytes + 1, BufBytes)

SpecMutex == Init /\ [][NextMutex]_vars

\* the cooperative and the worker variant are two builds of the same API: a
\* run uses one of them, decided by the first call that is made
CoopBuild == wcall = NoWorkCall /\ c0 = Core0Idle
WorkerBuild == call = NoCall

\* slot allocation of both builds: open and close of streams (in the worker
\* build of an unopenable and of an empty file), submission and processing
\* of one-shot requests
NextSlots ==
    \/ CoopBuild /\ Open
    \/ CoopBuild /\ \E s \in Slots : Close(s)
    \/ W_StreamScan
    \/ W_StreamReady
    \/ W_PswOpening
    \/ W_OpenIO
    \/ W_PswFilling
    \/ W_ReqScan
    \/ W_ReqDispatch
    \/ W_ReqLock
    \/ \E ok \in BOOLEAN : W_ReqIO(ok)
    \/ W_ReqStore
    \/ WorkerBuild /\ \E p \in {-1, 0}, m \in BOOLEAN : WOpenStart(p, m)
    \/ WOpenFinish
    \/ WorkerBuild /\ \E s \in Slots : WCloseWait(s)
    \/ WCloseFile
    \/ WCloseIO
    \/ WCloseFree
    \/ WCloseStore
    \/ WorkerBuild /\ \E p \in ShotPaths : Submit(p, BufBytes)

SpecSlots == Init /\ [][NextSlots]_vars

\* chunked_sd_read on core 1, core 0 taking the SD mutex at any time
NextWait ==
    \/ \E t \in WaitTotals, l \in WaitFileBytes : CsrCall(t, l)
    \/ CsrLoop
    \/ \E v \in BOOLEAN : WaitFirst(v)
    \/ \E v \in BOOLEAN : WaitLoop(v)
    \/ CsrLock
    \/ \E ok \in BOOLEAN : CsrRead(ok)
    \/ MutexLock
    \/ MutexUnlock

\* every step of core 1 is taken eventually (the core runs nothing else);
\* mutex_enter_blocking gets the mutex if core 0 keeps releasing it, and
\* core 0 releases a mutex it holds
WaitFairness ==
    /\ WF_vars(CsrLoop)
    /\ WF_vars(\E v \in BOOLEAN : WaitFirst(v))
    /\ WF_vars(\E v \in BOOLEAN : WaitLoop(v))
    /\ SF_vars(CsrLock)
    /\ WF_vars(\E ok \in BOOLEAN : CsrRead(ok))
    /\ WF_vars(MutexUnlock)

SpecWait == Init /\ [][NextWait]_vars /\ WaitFairness

\* the cooperative scheduler with several streams of files longer than two
\* buffers
NextPump ==
    \/ \E size \in {2 * BufBytes + 1, 3 * BufBytes} : MultiOpen(size)
    \/ MultiPump
    \/ \E s \in PumpSlots, n \in {1, BufBytes} : MultiRead(s, n)
    \/ \E s \in PumpSlots : MultiClose(s)

SpecPump == Init /\ [][NextPump]_vars

\* apply_fade_to_color with every level a uint8_t can hold, and
\* set_fade_level below, at and above the saturation threshold on a palette
\* with one colour
NextFade ==
    \/ \E c \in FadeProbeColors : ApplyFadeNext(c)
    \/ SetPalette(88, AllColors[1])
    \/ \E l \in {20, 48, 64} : \E m \in {0, 1} : SetFadeLevel(l, m)

SpecFade == Init /\ [][NextFade]_vars

\* One stream of the scheduler of SpecPump, with the main loop calling
\* sd_async_pump again and again: a pump call that has work to do is
\* eventually made.
NextRefill ==
    \/ \E size \in {2 * BufBytes + 1, 3 * BufBytes - 1, 3 * BufBytes} :
           MultiFreeSlot = 0 /\ MultiOpen(size)
    \/ MultiPump
    \/ \E n \in {1, ChunkBytes, BufBytes} : MultiRead(0, n)
    \/ MultiClose(0)

RefillFairness == WF_vars(MultiPump)

SpecRefill == Init /\ [][NextRefill]_vars /\ RefillFairness

\* The palette writer store by store, preempted by the frame-wrap interrupt,
\* which comes once a frame for as long as the video output runs.
NextPreempt ==
    \/ \E i \in PalInputs, c \in Colors : PwCall(i, c)
    \/ PwWord0
    \/ PwWord1
    \/ \E l \in {0, 48} : PfCall(l, 0)
    \/ PfWord0
    \/ PfWord1
    \/ PfSync
    \/ PwDirty
    \/ PreemptVsync

PreemptFairness == WF_vars(PreemptVsync)

SpecPreempt == Init /\ [][NextPreempt]_vars /\ PreemptFairness

\* SpecShot with the worker running for ever: core1_worker is a loop without
\* exit on a core of its own, so each of its steps is taken when it is due
\* (the mutex is free in this specification, the caller takes it nowhere).
\* Nothing is assumed of the calls the caller makes.
WorkerStep ==
    \/ W_StreamScan
    \/ W_StreamReady
    \/ W_ReqScan
    \/ W_ReqDispatch
    \/ W_ReqLock
    \/ \E ok \in BOOLEAN : W_ReqIO(ok)
    \/ W_ReqStore

ShotFairness == WF_vars(WorkerStep)

SpecShotFair == Init /\ [][NextShot]_vars /\ ShotFairness

(***************************************************************************)
(* Properties of the palette / fade API, checked under SpecClut.           *)
(***************************************************************************)
\* C1: between two publishes no call of the palette / fade API changes an
\* entry of the front CLUT; a publish that finds the dirty flag set makes the
\* front CLUT equal to the back CLUT, whose non-reserved entries encode the
\* current palette, and leaves the back CLUT as it was.
C1_FrontStableUntilPublish ==
    [][/\ (last_op' # "vsync_handler" => conv_color_front' = conv_color_front)
       /\ (last_op' = "vsync_handler" /\ conv_color_dirty =>
              /\ conv_color_front' = conv_color_back
              /\ conv_color_back' = conv_color_back
              /\ \A i \in PlainIdx : conv_color_front'[i] = ClutEntry(palette[i]))]_vars

\* a publish has just made a non-black palette write visible
C1_Witness ==
    /\ last_op = "vsync_handler"
    /\ ~conv_color_dirty
    /\ \E i \in PlainIdx : /\ palette[i] # 0
                           /\ conv_color_front[i] = ClutEntry(palette[i])
                           /\ conv_color_front[i] # ClutEntry(0)

\* C7 (amended): set_fade_level never modifies a stored original, and
\* set_fade_level(0, m) makes the current colour of every non-reserved index
\* equal to its stored original and re-encodes it into the back CLUT.
C7_FadeZeroRestoresNonReserved ==
    [][last_op' = "set_fade_level" =>
          /\ palette_original' = palette_original
          /\ (g_hdmi_fade_level' = 0 =>
                 \A i \in PlainIdx :
                     /\ palette'[i] = palette_original'[i]
                     /\ conv_color_back'[i] = ClutEntry(palette_original'[i]))]_vars

\* C7 as stated: the same for every index, the reserved ones included
C7_FadeZeroRestoresAll ==
    [][last_op' = "set_fade_level" =>
          /\ palette_original' = palette_original
          /\ (g_hdmi_fade_level' = 0 =>
                 \A i \in TrackedIdx : palette'[i] = palette_original'[i])]_vars

\* set_fade_level(0, m) has restored a non-black entry that was set while a
\* fade was in force (the reserved entry still holds its faded colour)
C7_Witness ==
    /\ last_op = "set_fade_level"
    /\ g_hdmi_fade_level = 0
    /\ \E i \in PlainIdx : palette[i] # 0 /\ palette[i] = palette_original[i]
    /\ \E j \in CtrlIdx : palette[j] # palette_original[j]

\* C8: set_palette with a non-reserved index writes the encoding of the
\* derived colour into that entry of the back CLUT, leaves every other entry
\* and the front CLUT alone and sets the dirty flag; with a reserved index it
\* changes no entry of either CLUT and leaves the dirty flag as it was.
C8_SetPaletteReservedNoOp ==
    [][last_op' = "set_palette" =>
          IF IsCtrl(last_idx')
          THEN /\ conv_color_front' = conv_color_front
               /\ conv_color_back' = conv_color_back
               /\ conv_color_dirty' = conv_color_dirty
          ELSE /\ conv_color_back'[last_idx'] = ClutEntry(palette'[last_idx'])
               /\ \A j \in TrackedIdx \ {last_idx'} :
                      conv_color_back'[j] = conv_color_back[j]
               /\ conv_color_front' = conv_color_front
               /\ conv_color_dirty']_vars

\* set_palette(5, 0xFF0000) and then set_palette(241, c), with a publish in
\* between: the back CLUT holds red at 5, the sync code at 241, and the
\* reserved call has not set the dirty flag
C8_Witness ==
    /\ last_op = "set_palette"
    /\ last_idx = BASE_HDMI_CTRL_INX + 1
    /\ palette_original[BASE_HDMI_CTRL_INX + 1] # 0
    /\ palette_original[5] = 16711680
    /\ conv_color_back[5] = ClutEntry(16711680)
    /\ conv_color_back[BASE_HDMI_CTRL_INX + 1] = SyncEntry(BASE_HDMI_CTRL_INX + 1)
    /\ ~conv_color_dirty

(***************************************************************************)
(* Properties of the scanline interrupt handler, checked under SpecScan.   *)
(***************************************************************************)
\* C6: the guard of the pixel copy maps each of 240..243 to 255 and every
\* other index 0..255 to itself, and bytes 72..391 of a scanline buffer built
\* for an active line (0..479) never hold a value in 240..243.
C6_PixelRegionNeverReserved ==
    /\ \A c \in 0..255 : /\ GuardIndex(c) \notin 240..243
                         /\ GuardIndex(c) = (IF c \in 240..243 THEN 255 ELSE c)
    /\ \A b \in 0..1 :
           buf_line[b] \in 0..(h_width - 1) =>
               \A k \in 72..391 : dma_lines[b][k] \notin 240..243

\* line 1 was built from row 0 of a registered frame buffer whose pixels 4..7
\* hold 240..243: they were emitted as 255, their neighbours unchanged
C6_Witness ==
    /\ graphics_buffer = "FB"
    /\ ~g_hdmi_loading_mode
    /\ \E b \in 0..1 : /\ buf_line[b] = 1
                       /\ dma_lines[b][72 + 3] = 239
                       /\ \A k \in 4..7 : dma_lines[b][72 + k] = 255
                       /\ dma_lines[b][72 + 8] = 244

\* C9: the publish runs only in the interrupt that finds the line counter at
\* h_total and resets it to 0, an interrupt that builds no scanline; every
\* other interrupt advances the counter by one and leaves the front CLUT and
\* the dirty flag alone, so there is one publish per cycle of 525 interrupts
\* and none in an interrupt that finds the counter below 480.  The publish
\* copies back to front and clears the dirty flag if the flag is set and does
\* nothing otherwise.  No frame source or palette call changes the front CLUT
\* or clears the dirty flag.
C9_PublishOnlyAtWrap ==
    [][/\ line \in 0..h_total
       /\ (last_op' = "dma_handler_HDMI" =>
              /\ (isr_vsync' <=> line = h_total)
              /\ conv_color_back' = conv_color_back
              /\ (isr_vsync' =>
                     /\ line' = 0
                     /\ line >= h_width
                     /\ UNCHANGED <<dma_lines, inx_buf_dma, buf_line>>
                     /\ IF conv_color_dirty
                        THEN conv_color_front' = conv_color_back /\ ~conv_color_dirty'
                        ELSE UNCHANGED <<conv_color_front, conv_color_dirty>>)
              /\ (~isr_vsync' =>
                     /\ line' = line + 1
                     /\ UNCHANGED <<conv_color_front, conv_color_dirty>>))
       /\ (last_op' # "dma_handler_HDMI" =>
              /\ conv_color_front' = conv_color_front
              /\ (conv_color_dirty => conv_color_dirty')
              /\ line' = line)]_vars

\* the interrupt at the frame wrap has just published a palette write
C9_Witness ==
    /\ last_op = "dma_handler_HDMI"
    /\ isr_vsync
    /\ line = 0
    /\ ~conv_color_dirty
    /\ palette_original[5] # 0
    /\ conv_color_front[5] = ClutEntry(palette[5])
    /\ conv_color_front = conv_color_back

(***************************************************************************)
(* Properties of the cooperative stream scheduler, checked under SpecCoop. *)
(***************************************************************************)
\* the stream the last call was made on
CallStream == streams[call.slot]

\* C2: once the reads on an open stream with no device error have returned
\* as many bytes as the file holds (S > 0), the next read (of N > 0 bytes)
\* returns -1 and eof() is true.
C2_DrainedReadReturnsEof ==
    (/\ call.op = "read"
     /\ CallStream.state \notin {"ERROR", "CLOSED"}
     /\ call.n > 0
     /\ CallStream.file_size > 0
     /\ call.pre_got = CallStream.file_size)
        => (call.ret = -1 /\ sd_async_stream_eof(CallStream))

\* C3 (amended): read never returns more than N; it returns no more than
\* min(N, a) when a > 0 bytes were available before the call; when the active
\* buffer was exhausted and read swapped, it returns no more than min(N, v),
\* v the valid bytes of the other buffer; otherwise it returns nothing.
C3_ReadBounded ==
    call.op = "read" =>
        /\ call.ret <= call.n
        /\ (call.avail > 0 => ~call.swapped /\ call.ret <= Min(call.n, call.avail))
        /\ (call.swapped => call.avail <= 0 /\ call.ret <= Min(call.n, call.other))
        /\ (call.avail <= 0 /\ ~call.swapped => call.ret <= 0)

\* C3 as stated: read never returns more than min(N, a)
C3_ReadBoundedByAvailable ==
    call.op = "read" => call.ret <= Min(call.n, call.avail)

\* a read found the active buffer exhausted, swapped and delivered bytes
C3_Witness ==
    /\ call.op = "read"
    /\ call.swapped
    /\ call.avail = 0
    /\ call.ret > 1
    /\ call.ret = Min(call.n, call.other)

\* C4 (amended): a read on a stream in EOF with no unconsumed byte in either
\* buffer returns -1; read returns 0 only on a stream that is not in EOF,
\* ERROR or CLOSED, and then either N = 0 or neither buffer had a byte to
\* deliver.
C4_ReadSentinels ==
    call.op = "read" =>
        /\ (CallStream.state = "EOF" /\ call.avail <= 0 /\ call.other <= 0
               => call.ret = -1)
        /\ (call.ret = 0 =>
               /\ CallStream.state \notin {"EOF", "ERROR", "CLOSED"}
               /\ (call.n = 0 \/ (call.avail <= 0 /\ call.other <= 0)))

\* C4 as stated: 0 is returned only with nothing to deliver
C4_ZeroOnlyWhenNothingToDeliver ==
    call.op = "read" =>
        /\ (CallStream.state = "EOF" /\ call.avail <= 0 /\ call.other <= 0
               => call.ret = -1)
        /\ (call.ret = 0 =>
               /\ CallStream.state \notin {"EOF", "ERROR", "CLOSED"}
               /\ call.avail <= 0 /\ call.other <= 0)

\* a read on a stream of a non-empty file in EOF returned -1
C4_Witness ==
    /\ call.op = "read"
    /\ CallStream.state = "EOF"
    /\ CallStream.file_size > 0
    /\ call.avail = 0
    /\ call.other = 0
    /\ call.ret = -1

\* C5 (amended): after a read that returned k > 0, available() is a - k if
\* a > 0 bytes were available before the call, and v - k if the read swapped
\* to the other buffer, v its valid bytes.
C5_AvailableAfterRead ==
    (call.op = "read" /\ call.ret > 0) =>
        sd_async_stream_available(CallStream)
            = (IF call.swapped THEN call.other ELSE call.avail) - call.ret

\* C5 as stated: available() after the read is a - k, swap or not
C5_AvailableDecreasesByRet ==
    (call.op = "read" /\ call.ret > 0) =>
        sd_async_stream_available(CallStream) = call.avail - call.ret

\* a read swapped buffers, delivered bytes and left some in the new buffer
C5_Witness ==
    /\ call.op = "read"
    /\ call.ret > 0
    /\ call.swapped
    /\ sd_async_stream_available(CallStream) > 0
    /\ sd_async_stream_available(CallStream) = call.other - call.ret

\* C10: a stream in ERROR stays in ERROR under every call but close, which
\* moves it to CLOSED, and every read and seek on it returns -1.
C10_ErrorAbsorbing ==
    [][\A s \in Slots :
          streams[s].state = "ERROR" =>
              /\ \/ streams'[s].state = "ERROR"
                 \/ /\ call'.op = "close"
                    /\ call'.slot = s
                    /\ streams'[s].state = "CLOSED"
              /\ (call'.op \in {"read", "seek"} /\ call'.slot = s => call'.ret = -1)]_vars

\* ----------------------------------------------------------------------
\* C11: sd_async_cancel(id) changes a request only while it is PENDING, and
\* once it has made the request FREE the worker neither opens the request's
\* file nor writes its destination buffer; a request that is already
\* IN_PROGRESS (or COMPLETE, ERROR) when cancel stores is left unchanged.
\* Checked over every interleaving of the two steps of cancel (test, store)
\* with the two steps of the worker's dispatch (test, store).
C11_CancelOnlyPending ==
    \A id \in ReqIds :
        /\ reqlog[id].cancel_pre \in {"none", "PENDING"}
        /\ ~reqlog[id].io_after_cancel

\* ----------------------------------------------------------------------
\* C12: a request that reached COMPLETE or ERROR keeps its slot, its id and
\* its result until the caller has observed its completion: as long as
\* sd_async_is_complete(id) has not returned true to the caller (and nothing
\* was cancelled), the id is still found in a slot and sd_async_get_result(id)
\* is the value the worker stored for it, whatever else was submitted.
NoCancel == \A k \in ReqIds : ~reqlog[k].cancelled

C12_ResultKeptUntilObserved ==
    \A id \in ReqIds :
        (reqlog[id].done # << >> /\ ~reqlog[id].observed /\ NoCancel)
            => /\ FindRequest(id) # -1
               /\ sd_async_get_result(id) = reqlog[id].done[1]

\* ----------------------------------------------------------------------
\* C13: a request whose path cannot be opened ends in ERROR: once the worker
\* has processed it, the state it stored is ERROR with result -1, and from
\* then on sd_async_is_complete(id) is true and sd_async_get_result(id) is -1,
\* whatever byte count was asked for (0 included) and in whatever order the
\* requests were submitted and processed, also after its slot was taken by a
\* later request. Stated for a request that was not itself cancelled, in runs
\* in which every request submitted so far names an unopenable path or in
\* which no request was cancelled.
AllMissing == \A k \in Issued : reqlog[k].path = -1

C14_PipelineOrder ==
    [][\A j \in ReqSlots :
        /\ (requests'[j].state \in {"COMPLETE", "ERROR"} /\ requests'[j].id # 0)
              => reqlog'[requests'[j].id].in_progress
        /\ requests'[j].id = requests[j].id =>
              /\ ~(requests[j].state = "IN_PROGRESS" /\ requests'[j].state = "PENDING")
              /\ ~(requests[j].state = "COMPLETE" /\ requests'[j].state = "ERROR")
              /\ ~(requests[j].state = "ERROR" /\ requests'[j].state = "COMPLETE")
      ]_vars

\* ----------------------------------------------------------------------
\* C15: after sd_async_stream_seek(handle, p) has returned success the bytes
\* that sd_async_stream_read delivers are the file's bytes starting at offset
\* p: every read that returns data copies it from the offset the caller is
\* at (0 after open, p after a successful seek, advanced by every read).
C15_ReadsStartAtSeekTarget ==
    (wcall.op = "read" /\ wcall.ret > 0) => wcall.off = wcall.arg

\* ----------------------------------------------------------------------
\* C16 (as stated): immediately after sd_async_stream_open has returned a
\* handle at least one of the two buffers holds data and available() is
\* between 0 and twice the buffer capacity.
C16_OpenLeavesData ==
    (call.op = "open" /\ call.ret = 0) =>
        LET r == streams[call.slot] IN
        /\ r.buffer_a_valid > 0 \/ r.buffer_b_valid > 0
        /\ sd_async_stream_available(r) \in 0..(2 * BufBytes)

\* C16 (amended): immediately after open has returned a handle on a file of
\* S bytes the stream is READY, EOF or ERROR. Without a device error buffer
\* A holds min(S, capacity) bytes and buffer B the bytes that follow, up to
\* its capacity, so A holds data exactly when S > 0 and both do exactly when
\* S exceeds one buffer, and the stream is EOF exactly when S = 0. After a
\* device error (state ERROR) B is empty and A is empty or full. available()
\* is the count of buffer A, between 0 and one buffer capacity.
C16_OpenWarmsBuffers ==
    (call.op = "open" /\ call.ret = 0) =>
        LET r == streams[call.slot]
            a == Min(r.file_size, BufBytes)
        IN  /\ r.state \in {"READY", "EOF", "ERROR"}
            /\ r.state # "ERROR" =>
                  /\ r.buffer_a_valid = a
                  /\ r.buffer_b_valid = Min(r.file_size - a, BufBytes)
                  /\ (r.state = "EOF") <=> (r.file_size = 0)
            /\ r.state = "ERROR" =>
                  /\ r.buffer_b_valid = 0
                  /\ r.buffer_a_valid \in {0, BufBytes}
            /\ r.active_buffer = 0
            /\ sd_async_stream_available(r) = r.buffer_a_valid
            /\ sd_async_stream_available(r) \in 0..BufBytes

\* open of a file longer than one buffer: both buffers hold data
C16_Witness ==
    /\ call.op = "open" /\ call.ret = 0
    /\ streams[call.slot].file_size > BufBytes
    /\ streams[call.slot].buffer_a_valid = BufBytes
    /\ streams[call.slot].buffer_b_valid > 0

\* ----------------------------------------------------------------------
\* C17: slot exhaustion and failed opens change nothing.
\*  - sd_async_stream_open called while no stream slot is CLOSED returns NULL
\*    and leaves every stream as it was (cooperative and worker build);
\*  - sd_async_read_file called while no request slot is FREE, COMPLETE or
\*    ERROR returns the invalid id 0 and leaves every request and the id
\*    counter as they were;
\*  - an open that fails because the file is missing or a buffer cannot be
\*    allocated leaves the slot it had chosen CLOSED, without buffers.
C17_ExhaustionChangesNothing ==
    [][/\ ((\A s \in Slots : streams[s].state # "CLOSED")
            /\ call'.op = "open" /\ call' # call)
          => (call'.ret = -1 /\ streams' = streams)
       /\ (call'.op = "open" /\ call' # call /\ call'.ret = -1 /\ call'.slot # -1)
          => /\ streams'[call'.slot].state = "CLOSED"
             /\ ~streams'[call'.slot].file /\ ~streams'[call'.slot].bufs
             /\ \A t \in Slots \ {call'.slot} : streams'[t] = streams[t]
       /\ ((\A s \in Slots : wstreams[s].state # "CLOSED")
            /\ c0.pc = "idle" /\ wcall'.op = "open" /\ wcall' # wcall)
          => (wcall'.ret = -1 /\ wstreams' = wstreams /\ c0' = c0)
       /\ (wcall'.op = "open" /\ wcall' # wcall /\ wcall'.ret = -1 /\ wcall'.arg # -1)
          => /\ wstreams'[wcall'.arg].state = "CLOSED"
             /\ ~wstreams'[wcall'.arg].bufs
             /\ \A t \in Slots \ {wcall'.arg} : wstreams'[t] = wstreams[t]
       /\ ((\A j \in ReqSlots : ~Reusable(j))
            /\ wcall'.op = "read_file" /\ wcall' # wcall)
          => (wcall'.ret = 0 /\ requests' = requests
              /\ g_next_req_id' = g_next_req_id)
      ]_vars

\* worker build: every stream slot and every request slot is taken, the last
\* call was a submit and it returned the invalid id
C17_Witness ==
    /\ \A s \in Slots : wstreams[s].state # "CLOSED"
    /\ \A j \in ReqSlots : ~Reusable(j)
    /\ wcall.op = "read_file" /\ wcall.ret = 0

\* ----------------------------------------------------------------------
\* C18: worker variant. From the moment sd_async_stream_close has left its
\* wait loop until it has stored CLOSED, no open, fill or seek is in flight
\* on that stream and the worker starts none; and the worker never makes a
\* device read on a stream whose file is closed or whose buffers are freed.
Closing(s) ==
    c0.slot = s /\ c0.pc \in {"close_file", "close_io", "close_free", "close_store"}

C18_CloseExcludesWorker ==
    /\ \A s \in Slots :
          Closing(s) => wstreams[s].state \notin
                            {"OPENING", "FILLING_A", "FILLING_B", "SEEKING"}
    /\ dev.op = "read" => ~dev.stale

\* ----------------------------------------------------------------------
\* C19: worker variant. At most one core is inside a FatFS call at any time;
\* wherever the worker opens, reads or seeks a file (stream work and one-shot
\* work alike) and wherever close() closes one, that core owns the SD mutex;
\* while a caller holds the mutex from sd_mutex_lock the worker is in no
\* FatFS call; and the worker does not own the mutex while it waits for
\* vblank.
C19_OneContextInFatFS ==
    /\ Cardinality(in_fatfs) <= 1
    /\ in_fatfs \subseteq {g_sd_mutex}
    /\ wk.pc \in {"open_io", "fill_io", "seek_io", "req_io"}
          => (g_sd_mutex = "core1" /\ in_fatfs = {"core1"})
    /\ c0.pc \in {"close_io", "locked"}
          => (g_sd_mutex = "core0" /\ in_fatfs = {"core0"})
    /\ wk.pc \in {"fill_wait", "fill_lock"} => g_sd_mutex # "core1"
    /\ ~mutex_in_wait

\* the caller holds the mutex while the worker, its vblank wait done, stands
\* before the f_read of a stream fill
C19_Witness ==
    /\ c0.pc = "locked"
    /\ wk.pc = "fill_lock"
    /\ wk.waited

\* ----------------------------------------------------------------------
\* C20: worker variant. Every read of the storage device by the worker
\* transfers at most SD_READ_CHUNK_SIZE bytes in one device call and the
\* step just before it was a wait for vblank (or its timeout), for stream
\* buffer fills and for one-shot whole-file reads alike.
C20_ReadsChunkedAndPaced ==
    (dev.op = "read" /\ dev.ctx = "core1")
        => (dev.bytes <= SD_READ_CHUNK_SIZE /\ dev.waited)

(***************************************************************************)
(* Properties of chunked_sd_read and its vblank wait, checked under        *)
(* SpecWait.                                                               *)
(***************************************************************************)
\* C21: wait_for_vblank_or_timeout returns after at most
\* SD_VBLANK_WAIT_TIMEOUT + 1 polls of the vblank signal whether or not
\* vblank ever occurs, and every call of chunked_sd_read returns: core 1 does
\* not stay in the wait or in the read loop for ever.
C21_WaitBoundedReadReturns ==
    /\ [](vw.polls <= SD_VBLANK_WAIT_TIMEOUT + 1)
    /\ [](vw.timed_out => vw.polls = SD_VBLANK_WAIT_TIMEOUT + 1)
    /\ [](vw.chunks * SD_READ_CHUNK_SIZE <= vw.total_bytes + SD_READ_CHUNK_SIZE - 1)
    /\ ((vw.pc # "out") ~> (vw.pc = "out"))

\* a read of more than two chunks returned all its bytes although the last
\* wait timed out without seeing vblank
C21_Witness ==
    /\ vw.pc = "out"
    /\ vw.total_bytes = 2 * SD_READ_CHUNK_SIZE + 1
    /\ vw.ret = vw.total_bytes
    /\ vw.chunks = 3
    /\ vw.timed_out
    /\ vw.polls = SD_VBLANK_WAIT_TIMEOUT + 1

(***************************************************************************)
(* Properties of the cooperative scheduler with several streams, checked   *)
(* under SpecPump.                                                         *)
(***************************************************************************)
\* C22: each call of sd_async_pump reads at most one chunk of
\* SD_ASYNC_PUMP_CHUNK_SIZE bytes from storage, whatever number of streams
\* are open and filling, and no stream's file cursor advances by more than
\* one chunk in one call.
C22_PumpReadsOneChunk ==
    mcall.op = "pump" =>
        /\ mcall.reads <= 1
        /\ mcall.bytes <= ChunkBytes
        /\ mcall.advance <= ChunkBytes

(***************************************************************************)
(* Further properties of the scanline interrupt handler, checked under     *)
(* SpecScan.                                                               *)
(***************************************************************************)
\* the interrupt that has just run built a scanline for an active line
BuiltActive ==
    /\ last_op' = "dma_handler_HDMI"
    /\ line' % 2 = 1
    /\ line' < h_width

\* C23: while the loading-mode flag is set, every scanline the handler
\* builds for an active line has its 320-byte pixel region filled with 255
\* and the handler reads no byte of the frame buffer, whatever frame buffer,
\* resolution and shift are registered; the sync codes around the pixel
\* region are the ones of a normal line.
C23_LoadingModeBlanks ==
    [][(BuiltActive /\ g_hdmi_loading_mode) =>
          LET buf == dma_lines'[inx_buf_dma']
          IN  /\ \A k \in 72..391 : buf[k] = 255
              /\ FrameReads(line') = {}
              /\ \A k \in 0..47 : buf[k] = BASE_HDMI_CTRL_INX + 1
              /\ \A k \in 48..71 : buf[k] = BASE_HDMI_CTRL_INX
              /\ \A k \in 392..399 : buf[k] = BASE_HDMI_CTRL_INX]_vars

\* line 1 was built from the registered frame buffer, then loading mode was
\* set and line 3 was built blank into the other scanline buffer, with the
\* same sync codes
C23_Witness ==
    /\ last_op = "dma_handler_HDMI"
    /\ g_hdmi_loading_mode
    /\ graphics_buffer = "FB"
    /\ line = 3
    /\ buf_line[inx_buf_dma] = 3
    /\ buf_line[1 - inx_buf_dma] = 1
    /\ dma_lines[1 - inx_buf_dma][72] = 236
    /\ \A k \in 72..391 : dma_lines[inx_buf_dma][k] = 255
    /\ \A k \in (0..71) \cup (392..399) :
           dma_lines[inx_buf_dma][k] = dma_lines[1 - inx_buf_dma][k]

(***************************************************************************)
(* Further properties of the palette / fade API, checked under SpecClut.   *)
(***************************************************************************)
\* C24: after initialisation, for any sequence of set_palette,
\* set_fade_level, restore_sync_colors calls and publishes, entries 240..243
\* of the front and of the back CLUT hold the four fixed sync / control
\* encodings; restore_sync_colors changes no other entry of either copy, no
\* palette colour and not the dirty flag.
C24_SyncEntriesFixed ==
    /\ [](\A i \in CtrlIdx : /\ conv_color_front[i] = SyncEntry(i)
                             /\ conv_color_back[i] = SyncEntry(i))
    /\ [][last_op' = "restore_sync_colors" =>
             /\ \A i \in PlainIdx : /\ conv_color_front'[i] = conv_color_front[i]
                                    /\ conv_color_back'[i] = conv_color_back[i]
             /\ \A i \in CtrlIdx : /\ conv_color_front'[i] = SyncEntry(i)
                                   /\ conv_color_back'[i] = SyncEntry(i)
             /\ conv_color_dirty' = conv_color_dirty
             /\ UNCHANGED <<palette, palette_original, g_hdmi_fade_level,
                            g_hdmi_fade_rows>>]_vars

\* restore_sync_colors ran after a palette write to a reserved index, a
\* write to an ordinary index and a publish: the ordinary entry keeps its
\* colour in both copies and the dirty flag is still clear
C24_Witness ==
    /\ last_op = "restore_sync_colors"
    /\ palette_original[BASE_HDMI_CTRL_INX + 1] # 0
    /\ ~conv_color_dirty
    /\ \E i \in PlainIdx : /\ palette[i] # 0
                           /\ conv_color_front[i] = ClutEntry(palette[i])
                           /\ conv_color_back[i] = ClutEntry(palette[i])
                           /\ conv_color_back[i] # ClutEntry(0)
    /\ conv_color_back[BASE_HDMI_CTRL_INX] # conv_color_back[BASE_HDMI_CTRL_INX + 1]

\* row i div 16 is selected by the mask; mask 0 selects every row
RowChosen(i, mask) == mask = 0 \/ Bit(mask, i \div 16) = 1

\* C25 (amended): set_fade_level(level, mask) sets, for every non-reserved
\* index i, the derived colour to the faded original when level > 0 and
\* either row i div 16 is selected (mask = 0 selects all rows) or the level
\* is at or above the saturation threshold 48, and to the unmodified
\* original otherwise; it leaves every stored original unchanged, rewrites
\* the back CLUT encoding of every non-reserved entry, and sets the dirty
\* flag.
C25_FadeLevelDerivesColours ==
    [][last_op' = "set_fade_level" =>
          LET level == g_hdmi_fade_level'
              mask == g_hdmi_fade_rows'
          IN  /\ \A i \in PlainIdx :
                     /\ palette'[i] =
                            (IF level > 0 /\ (RowChosen(i, mask) \/ level >= 48)
                             THEN apply_fade_to_color(palette_original[i], level)
                             ELSE palette_original[i])
                     /\ conv_color_back'[i] = ClutEntry(palette'[i])
              /\ palette_original' = palette_original
              /\ conv_color_dirty']_vars

\* C25 as stated: the colour is faded only when the row is selected
C25_FadeOnlySelectedRows ==
    [][last_op' = "set_fade_level" =>
          LET level == g_hdmi_fade_level'
              mask == g_hdmi_fade_rows'
          IN  /\ \A i \in PlainIdx :
                     /\ palette'[i] =
                            (IF level > 0 /\ RowChosen(i, mask)
                             THEN apply_fade_to_color(palette_original[i], level)
                             ELSE palette_original[i])
                     /\ conv_color_back'[i] = ClutEntry(palette'[i])
              /\ palette_original' = palette_original
              /\ conv_color_dirty']_vars

\* set_fade_level(20, 1) dimmed the entry of the selected row 0 and left the
\* entry of row 5 at its original colour
C25_Witness ==
    /\ last_op = "set_fade_level"
    /\ g_hdmi_fade_level = 20
    /\ g_hdmi_fade_rows = 1
    /\ palette_original[5] # 0
    /\ palette[5] = apply_fade_to_color(palette_original[5], 20)
    /\ palette[5] # palette_original[5]
    /\ palette_original[88] # 0
    /\ palette[88] = palette_original[88]
    /\ conv_color_back[88] = ClutEntry(palette_original[88])
    /\ conv_color_dirty

(***************************************************************************)
(* Properties of apply_fade_to_color, checked under SpecFade.              *)
(***************************************************************************)
\* C26: for every fade level at or above the saturation threshold 48,
\* apply_fade_to_color returns black for any colour, and set_fade_level
\* makes every non-reserved derived entry black whatever the row mask; for
\* no level 0..255 is the 64-entry gamma table read out of range; a faded
\* channel never exceeds the original channel.
C26_FadeSaturatesInRange ==
    /\ [](fade_probe.level >= 48 => fade_probe.result = 0)
    /\ [](fade_probe.index = -1 \/ fade_probe.index \in 0..(Len(fade_gamma_table) - 1))
    /\ [](/\ ChanR(fade_probe.result) <= ChanR(fade_probe.color)
          /\ ChanG(fade_probe.result) <= ChanG(fade_probe.color)
          /\ ChanB(fade_probe.result) <= ChanB(fade_probe.color))
    /\ [][(last_op' = "set_fade_level" /\ g_hdmi_fade_level' >= 48) =>
             \A i \in PlainIdx : /\ palette'[i] = 0
                                 /\ conv_color_back'[i] = ClutEntry(0)]_vars

\* apply_fade_to_color(white, 255) returned black, and set_fade_level(48, 1)
\* made the entry of the unselected row 5 black
C26_Witness ==
    /\ fade_probe = [color |-> 16777215, level |-> 255, index |-> -1, result |-> 0]
    /\ last_op = "set_fade_level"
    /\ g_hdmi_fade_level = 48
    /\ g_hdmi_fade_rows = 1
    /\ palette_original[88] # 0
    /\ palette[88] = 0

(***************************************************************************)
(* Geometry of the built scanline, checked under SpecScan.                 *)
(***************************************************************************)
\* the interrupt that has just run copied pixels of frame row line' div 2:
\* a frame buffer is registered, loading mode is off, the default graphics
\* mode is selected and the row is inside the vertical window
DrewFrameRow ==
    /\ BuiltActive
    /\ ~g_hdmi_loading_mode
    /\ hdmi_graphics_mode = "DEFAULT"
    /\ get_line_buffer(line' \div 2) # -1
    /\ graphics_buffer_shift_y <= line' \div 2
    /\ line' \div 2 < graphics_buffer_shift_y + graphics_buffer_height

\* C27: horizontal geometry of a built active line with frame width w and
\* horizontal shift sx: output pixel x (0 <= x < 320) equals
\* guard(row[x - sx]) when 0 <= x - sx < w and 255 otherwise; every column
\* to the right of the frame's last pixel is 255 and no byte outside the
\* row's w pixels is read.
C27_HorizontalGeometry ==
    [][DrewFrameRow =>
          LET buf == dma_lines'[inx_buf_dma']
              row == get_line_buffer(line' \div 2)
              w   == graphics_buffer_width
              sx  == graphics_buffer_shift_x
          IN  /\ \A x \in 0..(SCREEN_WIDTH - 1) :
                     buf[72 + x] = (IF 0 <= x - sx /\ x - sx < w
                                    THEN GuardIndex(FramePixel(row + x - sx))
                                    ELSE 255)
              /\ FrameReads(line') \subseteq row..(row + w - 1)]_vars

\* the interrupt that has just run built an active line from a registered
\* frame buffer in the default graphics mode, loading mode off
BuiltFromFrame ==
    /\ BuiltActive
    /\ ~g_hdmi_loading_mode
    /\ hdmi_graphics_mode = "DEFAULT"
    /\ graphics_buffer # "NULL"

\* C28: vertical geometry with vertical shift sy and frame height h: output
\* row y (0 <= y < 240) shows frame row y - sy when 0 <= y - sy < h and is
\* entirely blank otherwise; each output row is built once per frame, in
\* increasing order of y.
C28_VerticalGeometry ==
    [][BuiltFromFrame =>
          LET buf == dma_lines'[inx_buf_dma']
              y   == line' \div 2
              sy  == graphics_buffer_shift_y
              sx  == graphics_buffer_shift_x
              w   == graphics_buffer_width
              h   == graphics_buffer_height
              row == (y - sy) * w
          IN  /\ IF 0 <= y - sy /\ y - sy < h
                 THEN /\ \A x \in 0..(SCREEN_WIDTH - 1) :
                             (0 <= x - sx /\ x - sx < w) =>
                                 buf[72 + x] = GuardIndex(FramePixel(row + x - sx))
                      /\ FrameReads(line') # {}
                      /\ LET first == CHOOSE o \in FrameReads(line') :
                                          \A p \in FrameReads(line') : o <= p
                         IN  first \div w = y - sy
                 ELSE /\ \A x \in 0..(SCREEN_WIDTH - 1) : buf[72 + x] = 255
                      /\ FrameReads(line') = {}
              /\ line' = line + 1
              /\ buf_line'[inx_buf_dma'] = line'
              /\ (line' >= 3 => buf_line'[1 - inx_buf_dma'] = line' - 2)]_vars

\* C29: at every scanline interrupt in which the handler writes a scanline
\* buffer, the buffer it writes (selected by the parity of the incremented
\* buffer counter) is not the buffer the DMA data channel reads during that
\* line period; the two buffers alternate from one build to the next,
\* including across the frame wrap, where two consecutive interrupts (lines
\* 524 and 0) build nothing.
C29_WriteBufferNotRead ==
    [][last_op' = "dma_handler_HDMI" =>
          IF line' % 2 = 1
          THEN /\ inx_buf_dma' # dma_read'
               /\ inx_buf_dma' = 1 - inx_buf_dma
               /\ buf_line'[inx_buf_dma'] = line'
               /\ dma_lines'[dma_read'] = dma_lines[dma_read']
          ELSE /\ UNCHANGED <<inx_buf_dma, dma_lines, buf_line>>
               /\ line \in {h_total - 1, h_total} => line' \in {h_total, 0}]_vars

\* the first line of the second frame is being built: the handler writes the
\* buffer that held line 521 while the data channel reads the one that holds
\* line 523
C29_Witness ==
    /\ last_op = "dma_handler_HDMI"
    /\ line = 1
    /\ buf_line[inx_buf_dma] = 1
    /\ buf_line[1 - inx_buf_dma] = h_total - 1
    /\ dma_read = 1 - inx_buf_dma
    /\ dma_lines[dma_read][0] = BASE_HDMI_CTRL_INX + 1

\* the buffer (0 = A, 1 = B) a stream in state FILLING_A / FILLING_B is
\* filling, -1 in every other state
FillingBuffer(r) ==
    IF r.state = "FILLING_A" THEN 0 ELSE IF r.state = "FILLING_B" THEN 1 ELSE -1

ValidOf(r, b) == IF b = 0 THEN r.buffer_a_valid ELSE r.buffer_b_valid

\* the buffer under fill is empty, and a partly filled buffer exists only in
\* FILLING_A / FILLING_B
FillingBufferEmpty ==
    \A s \in Slots :
        LET r == streams[s] IN
        /\ FillingBuffer(r) # -1 => ValidOf(r, FillingBuffer(r)) = 0
        /\ r.state \in {"READY", "EOF"} => r.fill_offset = 0

\* a read neither swaps to the buffer under fill nor copies out of it, and
\* swaps only to a buffer that held valid > 0 before the call
ReadKeepsOffFilling ==
    \A s \in Slots :
        LET r == streams[s]
            r2 == streams'[s]
        IN  (call'.op = "read" /\ call'.slot = s) =>
                /\ call'.ret > 0 => r2.active_buffer # FillingBuffer(r)
                /\ r2.active_buffer # r.active_buffer =>
                      /\ r2.active_buffer # FillingBuffer(r)
                      /\ ValidOf(r, r2.active_buffer) > 0
                      /\ ValidOf(r2, r2.active_buffer) > 0
                /\ r2.state = r.state /\ r2.fill_offset = r.fill_offset

\* a pump call writes into one buffer of a stream only, the one its state names
PumpFillsOneBuffer ==
    \A s \in Slots :
        LET r == streams[s]
            r2 == streams'[s]
            b == FillingBuffer(PumpStart(r))
        IN  call'.op = "pump" =>
                /\ b # 0 => r2.buffer_a = r.buffer_a /\ r2.buffer_a_valid = r.buffer_a_valid
                /\ b # 1 => r2.buffer_b = r.buffer_b /\ r2.buffer_b_valid = r.buffer_b_valid
                /\ r2.active_buffer = r.active_buffer

\* the active selector of an open stream changes only to a buffer with valid > 0
SwitchOnlyToValid ==
    \A s \in Slots :
        LET r == streams[s]
            r2 == streams'[s]
        IN  (r.state # "CLOSED" /\ r2.active_buffer # r.active_buffer) =>
                ValidOf(r2, r2.active_buffer) > 0

\* the active selector of an open stream changes in a read, to a buffer with
\* valid > 0, or in a seek, which resets it to buffer A with both buffers empty
SwitchInReadOrSeek ==
    \A s \in Slots :
        LET r == streams[s]
            r2 == streams'[s]
        IN  (r.state # "CLOSED" /\ r2.active_buffer # r.active_buffer) =>
                \/ call'.op = "read" /\ ValidOf(r2, r2.active_buffer) > 0
                \/ /\ call'.op = "seek" /\ call'.ret = 0
                   /\ r2.active_buffer = 0
                   /\ r2.buffer_a_valid = 0 /\ r2.buffer_b_valid = 0
                   /\ r2.state \in {"FILLING_A", "EOF"}

AwaitsRefill(r, b) ==
    /\ r.state = "READY"
    /\ r.active_buffer = 1 - b
    /\ ValidOf(r, b) = 0
    /\ r.file_pos < r.file_size

\* a read that swaps leaves the vacated buffer empty and, when file data
\* remain, the stream READY and waiting for the refill of that buffer
SwapVacates ==
    \A s \in PumpSlots :
        LET r == mstreams[s]
            r2 == mstreams'[s]
            b == r.active_buffer
        IN  (mcall'.op = "read" /\ mcall'.slot = s /\ r2.active_buffer # b) =>
                /\ ValidOf(r2, b) = 0
                /\ (IF b = 0 THEN r2.buffer_a_consumed ELSE r2.buffer_b_consumed) = 0
                /\ ValidOf(r2, r2.active_buffer) > 0
                /\ r2.file_pos < r2.file_size => AwaitsRefill(r2, b)

\* sd_async_pump moves a stream that awaits the refill of buffer b to the
\* FILLING state of b and reads a chunk into b; the call leaves the stream in
\* that state, or READY again when the chunk ended the fill
PumpStartsRefill ==
    \A s \in PumpSlots : \A b \in {0, 1} :
        LET r == mstreams[s]
            r2 == mstreams'[s]
        IN  (mcall'.op = "pump" /\ AwaitsRefill(r, b)) =>
                /\ FillingBuffer(PumpStart(r)) = b
                /\ r2.file_pos > r.file_pos
                /\ r2.active_buffer = r.active_buffer
                /\ ValidOf(r2, r2.active_buffer) = ValidOf(r, r.active_buffer)
                /\ \/ FillingBuffer(r2) = b /\ r2.fill_offset = r2.file_pos - r.file_pos
                   \/ r2.state = "READY" /\ ValidOf(r2, b) = r2.file_pos - r.file_pos

\* the refill under way is continued by every pump call
PumpContinuesRefill ==
    \A s \in PumpSlots : \A b \in {0, 1} :
        LET r == mstreams[s]
            r2 == mstreams'[s]
        IN  (mcall'.op = "pump" /\ FillingBuffer(r) = b /\ r.active_buffer = 1 - b) =>
                \/ FillingBuffer(r2) = b /\ r2.fill_offset > r.fill_offset
                \/ r2.state = "READY" /\ ValidOf(r2, b) > r.fill_offset

\* C31: when read exhausts the active buffer and swaps, the vacated buffer is
\* marked empty (valid = consumed = 0); if file data remain the next
\* sd_async_pump call moves the stream from READY to FILLING of exactly that
\* buffer, and with repeated pump calls and no device error the buffer
\* eventually becomes valid again and the stream returns to READY (unless the
\* stream is closed first).
C31_VacatedBufferRefilled ==
    /\ [][SwapVacates /\ PumpStartsRefill /\ PumpContinuesRefill]_vars
    /\ \A s \in PumpSlots : \A b \in {0, 1} :
          AwaitsRefill(mstreams[s], b) ~>
              \/ /\ mstreams[s].state = "READY"
                 /\ mstreams[s].active_buffer = 1 - b
                 /\ ValidOf(mstreams[s], b) > 0
              \/ mstreams[s].state = "CLOSED"

\* a pump call has left stream 0 half way through the refill of buffer A,
\* which a read vacated by swapping to B
C31_Witness ==
    /\ mcall.op = "pump"
    /\ mstreams[0].state = "FILLING_A"
    /\ mstreams[0].active_buffer = 1
    /\ mstreams[0].fill_offset > 0
    /\ mstreams[0].buffer_a_valid = 0
    /\ mstreams[0].buffer_b_valid > 0
    /\ mstreams[0].file_pos > 2 * BufBytes

\* C32: cooperative variant: for any interleaving of sd_async_pump and read
\* calls on an open stream with no device error, the bytes returned by read,
\* concatenated, are a prefix of the file contents starting at the last seek
\* position (offset 0 after open): each read returns the bytes that follow
\* those already returned, none skipped, duplicated or reordered.
C32_ReadsDeliverFileInOrder ==
    [][\A s \in Slots :
          (call'.op = "read" /\ call'.slot = s /\ call'.ret > 0) =>
              /\ Len(call'.data) = call'.ret
              /\ \A k \in 1..call'.ret :
                    call'.data[k] = FileByte(rdpos[s] + k - 1)
              /\ rdpos[s] + call'.ret <= streams[s].file_size
              /\ rdpos'[s] = rdpos[s] + call'.ret]_vars

\* after a seek to offset 3 and refills by the pump, a read that swaps to
\* buffer B returns the bytes that follow the four already returned
C32_Witness ==
    /\ call.op = "read" /\ call.swapped /\ call.ret > 1
    /\ got[call.slot] = -1
    /\ rdpos[call.slot] = 3 + BufBytes + call.ret
    /\ call.data[1] = FileByte(3 + BufBytes)

\* C33: worker variant: whenever seek(handle, p) returns 0 the worker has
\* executed the seek, the file cursor equals p and both buffers were
\* invalidated, even when seek is called while a fill of that stream is in
\* flight on the other core: the state SEEKING is left only by the worker's
\* SEEKING case, a fill completion never overwrites it.
C33_SeekingLeftBySeekOnly ==
    [][\A s \in DOMAIN wstreams :
          (wstreams[s].state = "SEEKING" /\ wstreams'[s].state # "SEEKING") =>
              /\ wk.i = s
              /\ wk.pc \in {"psw", "seek_io"}
              /\ \/ wstreams'[s].state = "ERROR"
                 \/ /\ wstreams'[s].state = "FILLING_A"
                    /\ wstreams'[s].file_pos = wstreams[s].seek_target
                    /\ wstreams'[s].buffer_a_valid = 0
                    /\ wstreams'[s].buffer_b_valid = 0
                    /\ wstreams'[s].active_buffer = 0]_vars

\* C34: with the scanline interrupt able to preempt a palette writer between
\* any two of its stores, the front CLUT never holds a half-written entry:
\* every non-reserved front entry is its initial value or a complete pair
\* (second 64-bit word = first word XOR 0x0003ffffffffffff).
C34_FrontEntriesComplete ==
    \A i \in PlainIdx :
        \/ conv_color_front[i] = <<U64Zero, U64Zero>>
        \/ conv_color_front[i][2] = U64Xor(conv_color_front[i][1], PairMask)

\* a publish is made by the interrupt exactly when the dirty flag is set; it
\* copies the whole table and clears the flag, and nothing else clears it
PublishCopiesAll ==
    /\ (last_op' = "vsync_handler" /\ conv_color_dirty) =>
           /\ conv_color_front' = conv_color_back
           /\ ~conv_color_dirty'
    /\ (conv_color_dirty /\ ~conv_color_dirty') =>
           /\ last_op' = "vsync_handler"
           /\ conv_color_front' = conv_color_back

\* with the flag clear, front and back differ only in entries the call in
\* progress is writing
CleanMeansPublished ==
    ~conv_color_dirty =>
        \A i \in PlainIdx :
            conv_color_front[i] = conv_color_back[i] \/ i \in pw.touched

\* a call that has returned leaves the flag set or its writes published
ReturnedMeansFlagged ==
    pw.pc = "idle" => (conv_color_dirty \/ conv_color_front = conv_color_back)

\* C35: no palette write is lost: with the interrupt preempting the writer at
\* any point and running every frame, after a set_palette or set_fade_level
\* call has returned the front CLUT eventually equals the back CLUT for every
\* entry written, i.e. the dirty flag is never cleared while a completed
\* back-buffer write remains unpublished.
C35_NoPaletteWriteLost ==
    /\ [](CleanMeansPublished /\ ReturnedMeansFlagged)
    /\ [][PublishCopiesAll]_vars
    /\ (conv_color_dirty ~> ~conv_color_dirty)

\* the interrupt published in the middle of a set_palette call and cleared
\* the flag; the call has since stored its second word and not yet set the flag
C35_Witness ==
    /\ pw.pc = "dirty"
    /\ ~conv_color_dirty
    /\ pw.touched # {}
    /\ \E i \in pw.touched : conv_color_front[i] # conv_color_back[i]

\* C36: for every fade level, row mask, index i and colour c, set_palette(i, c)
\* issued while that fade state is in force yields the same derived colour
\* and back-buffer entry for i as set_fade_level(same level, same mask) would
\* compute from the original c: both use the same rule for which rows fade.
C36_SetPaletteAgreesWithFade ==
    (last_op = "set_palette" /\ ~IsCtrl(last_idx)) =>
        LET color == SetFadeColor(last_idx, g_hdmi_fade_level, g_hdmi_fade_rows)
        IN  /\ palette[last_idx] = color
            /\ conv_color_back[last_idx] = ClutEntry(color)

\* C37: tell(handle) always equals the starting offset (0 after open, p after
\* seek(p)) plus the number of bytes returned by read since then, in every
\* stream state, including while a buffer is being filled incrementally.
C37_TellIsReadOffset ==
    \A s \in Slots :
        (streams[s].file /\ streams[s].state \notin {"CLOSED", "ERROR"}) =>
            sd_async_stream_tell(streams[s]) = rdpos[s]

\* the counters of stream r other than the file cursor are in range
CountersInRange(r) ==
    /\ 0 <= r.buffer_a_consumed /\ r.buffer_a_consumed <= r.buffer_a_valid
    /\ r.buffer_a_valid <= BufBytes
    /\ 0 <= r.buffer_b_consumed /\ r.buffer_b_consumed <= r.buffer_b_valid
    /\ r.buffer_b_valid <= BufBytes
    /\ 0 <= r.fill_offset /\ r.fill_offset <= BufBytes
    /\ r.active_buffer \in {0, 1}
    /\ sd_async_stream_available(r) >= 0
    /\ sd_async_stream_available(r) <= BufBytes

\* C38 (as stated): for every open stream in every reachable state
\* 0 <= consumed <= valid <= capacity for both buffers, 0 <= fill offset <=
\* capacity, file cursor <= file size and the active selector is 0 or 1;
\* hence available() is never negative and never exceeds one buffer.
C38_CountersAndCursorInRange ==
    \A s \in Slots :
        streams[s].state # "CLOSED" =>
            /\ CountersInRange(streams[s])
            /\ streams[s].file_pos <= streams[s].file_size

\* C38 (amended): as above, but the file cursor is at most the file size
\* except after a seek past the end of the file, which stores the position
\* asked for and leaves the stream in EOF with both buffers empty (ERROR
\* after a further seek that the device fails).
C38_CountersInRange ==
    \A s \in Slots :
        LET r == streams[s] IN
        r.state # "CLOSED" =>
            /\ CountersInRange(r)
            /\ \/ r.file_pos <= r.file_size
               \/ /\ r.state \in {"EOF", "ERROR"}
                  /\ r.file_pos = rdpos[s]
                  /\ r.buffer_a_valid = 0 /\ r.buffer_b_valid = 0
                  /\ r.fill_offset = 0

\* a read has used up buffer B, which was filled to capacity, while buffer A,
\* vacated by the swap, waits for its refill
C38_Witness ==
    /\ call.op = "read" /\ call.ret > 0
    /\ CallStream.state = "READY"
    /\ CallStream.active_buffer = 1
    /\ CallStream.buffer_b_consumed = BufBytes
    /\ CallStream.buffer_b_valid = BufBytes
    /\ CallStream.buffer_a_valid = 0
    /\ CallStream.file_pos < CallStream.file_size

\* C39: under worker fairness, for every id returned by submit,
\* is_complete(id) eventually returns true and then stays true for that id,
\* including for a request removed by cancel while it was PENDING, so a
\* caller polling is_complete never spins for ever.
C39_IsCompleteEventuallyTrue ==
    \A id \in ReqIds :
        (id \in Issued) ~> [](sd_async_is_complete(id))

============================================================================
